---- MODULE Spec2Model ----
\* Model of the Strix scanner (package discovery): Scan, scanDirectStream and
\* testStreamsConcurrently with its three kinds of goroutine (probe workers,
\* the periodic progress ticker, the result collector), writing to one SSE
\* StreamWriter.  One action is one step of one goroutine between two accesses
\* to shared state (atomics, channels, the sink, the context).
EXTENDS Integers, Naturals, Sequences, FiniteSets, TLC

\* ---------------------------------------------------------------- bounds --
\* Spec (every goroutine)
MaxCandidates == 2      \* longest candidate list collectStreams returns
MaxWorkers    == 1      \* largest WorkerPoolSize
MaxStreamsCap == 1      \* largest req.MaxStreams
\* SpecCollect (every goroutine but the ticker)
CollectMaxCandidates == 2
CollectMaxWorkers    == 2
CollectMaxStreams    == 2
\* SpecPool (the scanning goroutine and the probe workers)
PoolMaxCandidates == 3
PoolMaxWorkers    == 2
PoolMaxStreams    == 2
\* SpecSources (collectStreams over its three sources, then SpecPool)
SrcMaxLen == 1          \* longest list one source delivers
\* SpecBuilder (BuildURLsFromEntry): tokens of a path, pairs of a query
MaxPathLen == 1
MaxQueryLen == 2
\* SpecLoader (the Loader's caches): concurrent callers
MaxCallers == 2
\* SpecSearch (normalizeQuery): characters of a query
MaxQueryChars == 4
\* SpecChannel (BuildURLsFromEntry on channel placeholders)
ChanMaxPathLen == 2
\* SpecValidate (validateHTTPStream): pieces of a path, bytes of a sample
MaxPathPieces == 1
MaxSample == 4
\* SpecProbe (testRTSP): substreams of a report
MaxSubStreams == 3
\* SpecSubst (replacePlaceholders applied twice)
SubstMaxPathLen == 1
SubstMaxQueryLen == 2
\* SpecBypass (SpecCollect over the three candidate kinds)
BypassMaxCandidates == 1
BypassMaxWorkers    == 1
BypassMaxStreams    == 1
\* the scan with the result channel full
ChanFullExtra      == 1      \* workers beyond the capacity of the channel
\* the scans whose termination is checked
LiveMaxCandidates == 1
LiveMaxWorkers    == 1
LiveMaxStreams    == 1
\* the SSE server
MaxSseClients == 1      \* clients that connect

\* ------------------------------------------------------ program constants --
StreamsChanCap == 100   \* make(chan models.DiscoveredStream, 100)

\* ----------------------------------------------------------------- state --
VARIABLES
    target,         \* req.Target class: "direct" | "ip" | "invalid"
    candidates,     \* what collectStreams will return for this request
    maxStreams,     \* req.MaxStreams after defaults
    poolSize,       \* s.config.WorkerPoolSize
    scanPc,         \* position of the goroutine running Scan
    ctxDone,        \* scanCtx.Done() is closed (deadline, caller abort, defer cancel)
    streams,        \* the slice handed to testStreamsConcurrently
    next,           \* index of the next element of the range loop
    worker,         \* position of the goroutine spawned for candidate i
    sem,            \* number of tokens held in sem
    streamsChan,    \* buffered contents of streamsChan
    chanClosed,     \* close(streamsChan) has run
    tested, found,  \* the two atomic counters
    progressCancelled, \* cancelProgress() has run
    tickerPc, currentTested, lastTested, tickerFound,
    collPc, collStream, collTested, collFound, collRemaining,
    sink,           \* events written to the StreamWriter, in write order
    result,         \* *ScanResult
    probes,         \* number of TestStream invocations so far
    directWorking,  \* testResult.Working of the direct probe ("none" before)
    onvifStreams,   \* what s.onvif.DiscoverStreamsForIP returns
    modelStreams,   \* streams built from the entries SearchByModel returns
    popularStreams, \* streams built from what LoadPopularPatterns returns
    srcErr,         \* the sources whose call returns an error
    allStreams,     \* the slice collectStreams returns
    portOutcome,    \* per ONVIF port: what NewDevice and getProfileStreams give
    profileStreams, \* the streams getProfileStreams returns where it finds any
    portIdx,        \* position of discoverViaONVIF's loop over the ports
    onvifFound,     \* discoverViaONVIF's local slice streams
    onvifPc,        \* position of the goroutine in DiscoverStreamsForIP
    onvifResult,    \* what DiscoverStreamsForIP returned: [streams, err]
    httpReq,        \* the request as ServeHTTP receives and decodes it
    handlerPc,      \* position of the goroutine in DiscoverHandler.ServeHTTP
    httpStatus,     \* status ServeHTTP has answered with (0 before)
    wire,           \* what fmt.Fprintf has written to the ResponseWriter
    writerPc,       \* per goroutine inside writeEvent: the next write
    entry,          \* the models.CameraEntry handed to the Builder
    buildCtx,       \* the BuildContext handed to the Builder
    urls,           \* the slice BuildURLsFromEntry returned
    substOut,       \* replacePlaceholders' results: on the pattern, on that result
    builderPc,      \* "idle" | "ready" | "built" | "substituted"
    query,          \* the string handed to SearchEngine.normalizeQuery
    normalized,     \* normalizeQuery's results: on query, on that result
    searchPc,       \* "idle" | "ready" | "normalized"
    files,          \* per cache key: what the file holds ("missing" if none)
    cache,          \* brandsCache / patternsCache / paramsCache, by key
    muReaders,      \* the callers holding l.mu.RLock
    muWriter,       \* the caller holding l.mu.Lock (0 if none)
    loaderKey,      \* per caller: the key it loads
    loaderPc,       \* per caller: position inside Load...
    loaded,         \* per caller: what it decoded from the file
    returned,       \* per caller: what the call returned
    hitOnEntry,     \* per caller: the entry was populated when it took RLock
    cacheWrites,    \* per key: number of assignments to the cache entry
    reqCreds,       \* the username and password of the request
    commonStreams,  \* what getCommonRTSPStreams returned
    probeRequests,  \* per common stream: the request the Tester made for it
    commonPc,       \* "idle" | "ready" | "listed"
    httpResp,       \* the 200 response validateHTTPStream gets: type, path, sample
    httpResult,     \* the TestResult fields validateHTTPStream sets
    ffprobeOut,     \* ffprobe's parsed report: streams and format bit rate
    rtspResult,     \* the TestResult fields testRTSP sets
    testerPc,       \* "idle" | "ready" | "validated" | "probed"
    sseClients,     \* s.clients of the SSE server: ids of the registered clients
    clientPc,       \* per client: position of its ServeHTTP call
    clientChan,     \* per client: number of events buffered in client.Channel
    clientClosed,   \* per client: client.Channel has been closed
    loopPc,         \* position of the goroutine Start launched
    loopTodo,       \* clients the range loop of a broadcast has yet to visit
    loopClient      \* the client the loop is sending to s.unregister, 0 if none

vars == <<target, candidates, maxStreams, poolSize, scanPc, ctxDone, streams,
          next, worker, sem, streamsChan, chanClosed, tested, found,
          progressCancelled, tickerPc, currentTested, lastTested, tickerFound,
          collPc, collStream, collTested, collFound, collRemaining,
          sink, result, probes, directWorking,
          onvifStreams, modelStreams, popularStreams, srcErr, allStreams,
          portOutcome, profileStreams, portIdx, onvifFound, onvifPc, onvifResult,
          httpReq, handlerPc, httpStatus, wire, writerPc,
          entry, buildCtx, urls, substOut, builderPc,
          query, normalized, searchPc,
          files, cache, muReaders, muWriter, loaderKey, loaderPc, loaded,
          returned, hitOnEntry, cacheWrites,
          reqCreds, commonStreams, probeRequests, commonPc,
          httpResp, httpResult, ffprobeOut, rtspResult, testerPc,
          sseClients, clientPc, clientChan, clientClosed, loopPc, loopTodo,
          loopClient>>

sourceVars == <<onvifStreams, modelStreams, popularStreams, srcErr>>
reqVars    == <<target, candidates, maxStreams, poolSize, sourceVars>>
\* state of the components that no step of the scan writes
onvifVars  == <<portOutcome, profileStreams, portIdx, onvifFound, onvifPc,
                onvifResult>>
handlerVars == <<httpReq, handlerPc, httpStatus>>
wireVars   == <<wire, writerPc>>
builderVars == <<entry, buildCtx, urls, substOut, builderPc>>
searchVars == <<query, normalized, searchPc>>
\* state of the components beside the scanner, the handler and the Builder
loaderVars == <<files, cache, muReaders, muWriter, loaderKey, loaderPc, loaded,
                returned, hitOnEntry, cacheWrites>>
fallbackVars == <<reqCreds, commonStreams, probeRequests, commonPc>>
testerVars == <<httpResp, httpResult, ffprobeOut, rtspResult, testerPc>>
sseVars    == <<sseClients, clientPc, clientChan, clientClosed, loopPc, loopTodo,
                loopClient>>
moreVars   == <<searchVars, loaderVars, fallbackVars, testerVars, sseVars>>
libVars    == <<onvifVars, handlerVars, wireVars, builderVars, moreVars>>
tickerVars == <<tickerPc, currentTested, lastTested, tickerFound>>
collVars   == <<collPc, collStream, collTested, collFound, collRemaining>>
poolVars   == <<next, worker, sem, streamsChan, chanClosed, tested, found>>

\* ------------------------------------------------------------- helpers ----
SeqsUpTo(S, n) == UNION {[1..k -> S] : k \in 0..n}

\* a candidate: Type == "ONVIF" && Working (device service) or a stream to probe
CandidateKinds == {"onvif", "probe"}

\* the kinds with the two ways of failing the bypass test told apart:
\* "onvif_entry" is a database entry of Type "ONVIF" (Working false)
BypassKinds == {"onvif", "onvif_entry", "probe"}

\* discoverViaONVIF appends the device service before every profile stream and
\* stops at the first port that answers; DiscoverStreamsForIP and
\* collectStreams keep ONVIF first: the device service is candidate 1 or absent
CandidateLists(K, n) ==
    {s \in SeqsUpTo(K, n) : \A i \in 2..Len(s) : s[i] # "onvif"}

\* a collected stream: its URL, its kind, and the source that built it
Item(u, k, src) == [url |-> u, kind |-> k, src |-> src]

\* a candidate list as the ONVIF source would have delivered it, URL i at i
AsSource(list) == [i \in DOMAIN list |-> Item(i, list[i], "onvif")]

\* URLs of the streams built from profiles and URL patterns; "c" is also the
\* URL of the common RTSP stream
PatternURLs == {"c", "m"}

\* streams of plain candidates from one source, one per URL of the list
ItemsOf(list, src) == [i \in DOMAIN list |-> Item(list[i], "probe", src)]

\* the entry discoverViaONVIF appends for the device service
DeviceService == Item("d", "onvif", "onvif")

\* getCommonRTSPStreams: a fixed list, the RTSP paths and then the HTTP
\* snapshot paths, here one stream of each
CommonStreams == <<Item("c", "probe", "onvif"), Item("h", "probe", "onvif")>>

\* ports := []int{80, 8080, 8000}
OnvifPorts == <<80, 8080, 8000>>

\* the results DiscoverStreamsForIP can have: the common streams, after the
\* device service and the profile streams if a port answered
OnvifResults(n) ==
    {CommonStreams} \cup
    {<<DeviceService>> \o ItemsOf(p, "onvif") \o CommonStreams :
        p \in SeqsUpTo(PatternURLs, n) \ {<< >>}}

\* models.DiscoveredStream, the fields the two worker paths treat differently;
\* URLs are distinct after collectStreams, so the list index stands for the URL
StreamType(k) == IF k \in {"onvif", "onvif_entry"} THEN "ONVIF" ELSE "FFMPEG"
StreamWorking(k) == k = "onvif"
StreamPort(k) == IF k = "onvif" THEN 80 ELSE 554
CandidateStream(k, i) ==
    [url |-> i, type |-> StreamType(k), working |-> StreamWorking(k),
     port |-> StreamPort(k)]

\* the DiscoveredStream a worker builds from a working testResult
TestedStream(i) == [url |-> i, type |-> "FFMPEG", working |-> TRUE, port |-> 0]

\* the zero DiscoveredStream
NoStream == [url |-> 0, type |-> "", working |-> FALSE, port |-> 0]

Event(t, i, a, b, c) == [type |-> t, id |-> i, tested |-> a, found |-> b, remaining |-> c]

\* sse.StreamWriter.SendJSON: one event appended to the response
SendJSON(e) == sink' = Append(sink, e)

Workers == DOMAIN worker

\* isDirectStreamURL: scheme is rtsp, http or https
isDirectStreamURL(t) == t = "direct"

\* extractIP(target) == "" for the "invalid" class (e.g. ":80")
extractIPEmpty(t) == t = "invalid"

\* ------------------------------------------------------------------ Init --
\* values below, at and above the ends of a range, and the two non-positive
\* values a number can be sent as
Around(lo, hi) == {-1, 0, lo - 1, lo, hi, hi + 1}

\* no ONVIF discovery is being followed
OnvifIdle ==
    /\ portOutcome = << >>
    /\ profileStreams = << >>
    /\ portIdx = 0
    /\ onvifFound = << >>
    /\ onvifPc = "idle"
    /\ onvifResult = [streams |-> << >>, err |-> "none"]

\* models.StreamDiscoveryRequest as decoded; an absent number decodes to 0
Request(m, ok, t, ch, ms, to, ml) ==
    [method |-> m, decodes |-> ok, target |-> t, channel |-> ch,
     maxStreams |-> ms, timeout |-> to, modelLimit |-> ml]

\* ServeHTTP has validated the request and is calling Scan
HandlerPassed ==
    /\ httpReq = Request("POST", TRUE, target, 0, maxStreams, 240, 6)
    /\ handlerPc = "scanning"
    /\ httpStatus = 200

\* the goroutines that call streamWriter.SendJSON during one scan
Writers == {"scan", "ticker", "collector"}

\* the writes writeEvent makes for an event of SendEvent (Type set, no ID,
\* Retry or Comment, Data marshalled to one line): "event: ...\n",
\* "data: ...\n", "\n"
EventLines == <<"event", "data", "end">>

\* no writer is being followed line by line
WireIdle ==
    /\ wire = << >>
    /\ writerPc = [w \in Writers |-> 0]

\* the Builder is not being followed
NoPattern == [path |-> << >>, hasQ |-> FALSE, query |-> << >>]
BuilderIdle ==
    /\ entry = [protocol |-> "", port |-> 0, url |-> NoPattern]
    /\ buildCtx = [username |-> << >>, password |-> << >>, protocol |-> "", port |-> 0]
    /\ urls = << >>
    /\ substOut = << >>
    /\ builderPc = "idle"

\* normalizeQuery is not being followed
SearchIdle ==
    /\ query = << >>
    /\ normalized = << >>
    /\ searchPc = "idle"

\* the keys of the Loader's caches: a brand ID, and the one entry of the
\* patterns cache
LoaderKeys == {"hikvision", "patterns"}

\* the goroutines calling the Loader
Callers == 1..MaxCallers

\* the Loader after NewLoader: empty caches, free mutex, no call under way
LoaderState(fs) ==
    /\ files = fs
    /\ cache = [k \in LoaderKeys |-> "none"]
    /\ muReaders = {}
    /\ muWriter = 0
    /\ loaderKey = [c \in Callers |-> "hikvision"]
    /\ loaderPc = [c \in Callers |-> "idle"]
    /\ loaded = [c \in Callers |-> "none"]
    /\ returned = [c \in Callers |-> "none"]
    /\ hitOnEntry = [c \in Callers |-> FALSE]
    /\ cacheWrites = [k \in LoaderKeys |-> 0]

LoaderIdle == LoaderState([k \in LoaderKeys |-> "missing"])

\* no list of common streams is being followed
FallbackIdle ==
    /\ reqCreds = [username |-> "", password |-> ""]
    /\ commonStreams = << >>
    /\ probeRequests = << >>
    /\ commonPc = "idle"

\* TestResult as TestStream creates it: nothing set
NoHTTPResult == [type |-> "", working |-> FALSE, error |-> ""]
NoRTSPResult ==
    [working |-> FALSE, type |-> "", codec |-> "", resolution |-> <<0, 0>>,
     fps |-> 0, bitrate |-> 0, hasAudio |-> FALSE, error |-> ""]

\* the Tester has nothing to classify
TesterState(pc) ==
    /\ httpResp = [contentType |-> "", path |-> << >>, sample |-> << >>]
    /\ httpResult = NoHTTPResult
    /\ ffprobeOut = [streams |-> << >>, formatBitRate |-> 0]
    /\ rtspResult = NoRTSPResult
    /\ testerPc = pc

TesterIdle == TesterState("idle")

\* ids of the clients that connect to the SSE server
SseClientIds == 1..MaxSseClients

\* the SSE server with its clients; pc is the position of the server loop
SseState(pc) ==
    /\ sseClients = {}
    /\ clientPc = [c \in SseClientIds |-> "none"]
    /\ clientChan = [c \in SseClientIds |-> 0]
    /\ clientClosed = [c \in SseClientIds |-> FALSE]
    /\ loopPc = pc
    /\ loopTodo = {}
    /\ loopClient = 0

\* no SSE server has been started
SseIdle == SseState("idle")

MoreIdle == SearchIdle /\ LoaderIdle /\ FallbackIdle /\ TesterIdle /\ SseIdle

LibIdle == OnvifIdle /\ HandlerPassed /\ WireIdle /\ BuilderIdle /\ MoreIdle

\* State when Scan is entered: request validated by the handler, defaults set.
InitScanState(nw, ns) ==
    /\ target \in {"direct", "ip", "invalid"}
    /\ maxStreams \in 1..ns
    /\ poolSize \in 1..nw
    /\ scanPc = "init"
    /\ ctxDone = FALSE
    /\ streams = << >>
    /\ next = 1
    /\ worker = << >>
    /\ sem = 0
    /\ streamsChan = << >>
    /\ chanClosed = FALSE
    /\ tested = 0
    /\ found = 0
    /\ progressCancelled = FALSE
    /\ tickerPc = "idle"
    /\ currentTested = 0
    /\ lastTested = 0
    /\ tickerFound = 0
    /\ collPc = "idle"
    /\ collStream = NoStream
    /\ collTested = 0
    /\ collFound = 0
    /\ collRemaining = 0
    /\ sink = << >>
    /\ result = [TotalTested |-> 0, TotalFound |-> 0, Streams |-> 0]
    /\ probes = 0
    /\ directWorking = "none"
    /\ allStreams = << >>

InitScan(nw, ns) == InitScanState(nw, ns) /\ LibIdle

\* the candidate list is chosen directly: every candidate distinct, no source
\* fails
InitFrom(K, nc, nw, ns) ==
    /\ candidates \in CandidateLists(K, nc)
    /\ onvifStreams = AsSource(candidates)
    /\ modelStreams = << >>
    /\ popularStreams = << >>
    /\ srcErr = {}
    /\ InitScan(nw, ns)

InitWith(nc, nw, ns) == InitFrom(CandidateKinds, nc, nw, ns)

\* ------------------------------------------------------------ the context --
\* The deadline of context.WithTimeout expires, or the caller's context is
\* cancelled, at any moment while Scan can still observe it: once
\* testStreamsConcurrently has returned, progressCtx is cancelled and nothing
\* reads ctx any more.
CancelCtx ==
    /\ scanPc \in {"started", "direct_probe", "collected", "testing", "wgwait"}
    /\ ~ctxDone
    /\ ctxDone' = TRUE
    /\ UNCHANGED <<reqVars, libVars, allStreams, scanPc, streams, poolVars, progressCancelled,
                   tickerVars, collVars, sink, result, probes, directWorking>>

\* progressCtx is a child of ctx: done when either is cancelled
progressCtxDone == progressCancelled \/ ctxDone

\* ------------------------------------------------------- ONVIF discovery --
\* discoverViaONVIF, one iteration of the loop over the ports: NewDevice
\* fails (continue), or getProfileStreams returns nothing (next port), or it
\* returns streams: the device service and the profile streams are appended
\* and the loop is left
discoverViaONVIF ==
    /\ onvifPc = "ports"
    /\ portIdx <= Len(OnvifPorts)
    /\ IF portOutcome[portIdx] = "profiles"
       THEN /\ onvifFound' = onvifFound \o <<DeviceService>> \o profileStreams
            /\ onvifPc' = "common"
            /\ UNCHANGED portIdx
       ELSE /\ portIdx' = portIdx + 1
            /\ onvifPc' = IF portIdx = Len(OnvifPorts) THEN "common" ELSE "ports"
            /\ UNCHANGED onvifFound
    /\ UNCHANGED <<reqVars, builderVars, moreVars, handlerVars, wireVars, portOutcome, profileStreams, onvifResult,
                   allStreams, scanPc, ctxDone, streams, poolVars,
                   progressCancelled, tickerVars, collVars, sink, result,
                   probes, directWorking>>

\* faulty variant: discovery fails when no port delivered a stream
discoverErr_Mut(list) == IF list = << >> THEN "error" ELSE "nil"

\* the error DiscoverStreamsForIP returns: return allStreams, nil
discoverErr(list) == "nil"

\* DiscoverStreamsForIP after discoverViaONVIF: append what was found, append
\* the common streams, return
DiscoverStreamsForIP ==
    /\ onvifPc = "common"
    /\ onvifResult' = [streams |-> onvifFound \o CommonStreams,
                       err |-> discoverErr(onvifFound)]
    /\ onvifPc' = "returned"
    /\ UNCHANGED <<reqVars, builderVars, moreVars, handlerVars, wireVars, portOutcome, profileStreams, portIdx,
                   onvifFound, allStreams, scanPc, ctxDone, streams, poolVars,
                   progressCancelled, tickerVars, collVars, sink, result,
                   probes, directWorking>>

\* ------------------------------------------------------------ writeEvent --
\* StreamWriter.SendEvent calls writeEvent directly: nothing makes a writer
\* wait for another
MayWrite(w, pc) == TRUE

\* goroutine w enters SendJSON -> SendEvent -> writeEvent
WriteEventEnter(w) ==
    /\ writerPc[w] = 0
    /\ MayWrite(w, writerPc)
    /\ writerPc' = [writerPc EXCEPT ![w] = 1]
    /\ UNCHANGED <<reqVars, builderVars, moreVars, onvifVars, handlerVars, wire, allStreams, scanPc,
                   ctxDone, streams, poolVars, progressCancelled, tickerVars,
                   collVars, sink, result, probes, directWorking>>

\* one fmt.Fprintf of writeEvent by goroutine w
WriteEventLine(w) ==
    /\ writerPc[w] \in DOMAIN EventLines
    /\ wire' = Append(wire, [writer |-> w, line |-> EventLines[writerPc[w]]])
    /\ writerPc' = [writerPc EXCEPT ![w] = @ + 1]
    /\ UNCHANGED <<reqVars, builderVars, moreVars, onvifVars, handlerVars, allStreams, scanPc,
                   ctxDone, streams, poolVars, progressCancelled, tickerVars,
                   collVars, sink, result, probes, directWorking>>

\* flusher.Flush() and return nil
WriteEventFlush(w) ==
    /\ writerPc[w] = Len(EventLines) + 1
    /\ writerPc' = [writerPc EXCEPT ![w] = @ + 1]
    /\ UNCHANGED <<reqVars, builderVars, moreVars, onvifVars, handlerVars, wire, allStreams, scanPc,
                   ctxDone, streams, poolVars, progressCancelled, tickerVars,
                   collVars, sink, result, probes, directWorking>>

\* --------------------------------------------------------------- Builder --
\* A string is a sequence of tokens: a token is a run of plain characters or
\* the text of one placeholder.  A URL pattern (entry.URL) is a path, and after
\* a "?" a list of key=value pairs whose values are strings.
Placeholders == {"[USERNAME]", "[pass]", "[CHANNEL]"}

\* the replacements map of replacePlaceholders, for the placeholders modelled
Replacement(ph, ctx) ==
    CASE ph = "[USERNAME]" -> ctx.username
      [] ph = "[pass]"     -> ctx.password
      [] ph = "[CHANNEL]"  -> <<"0">>

\* strings.ReplaceAll(text, ph, val)
RECURSIVE ReplaceAll(_, _, _)
ReplaceAll(text, ph, val) ==
    IF text = << >> THEN << >>
    ELSE (IF Head(text) = ph THEN val ELSE <<Head(text)>>)
         \o ReplaceAll(Tail(text), ph, val)

\* one round of the loop over the map, on the whole pattern
ReplaceIn(t, ph, val) ==
    [t EXCEPT !.path = ReplaceAll(@, ph, val),
              !.query = [i \in DOMAIN @ |->
                            [@[i] EXCEPT !.val = ReplaceAll(@, ph, val)]]]

\* for placeholder, value := range replacements, in the order the map yields
RECURSIVE ReplaceEach(_, _, _)
ReplaceEach(t, order, ctx) ==
    IF order = << >> THEN t
    ELSE ReplaceEach(ReplaceIn(t, Head(order), Replacement(Head(order), ctx)),
                     Tail(order), ctx)

\* url.QueryEscape of a token: the brackets of placeholder text are escaped
QueryEscape(tok) ==
    CASE tok = "[USERNAME]" -> "%5BUSERNAME%5D"
      [] tok = "[pass]"     -> "%5Bpass%5D"
      [] tok = "[CHANNEL]"  -> "%5BCHANNEL%5D"
      [] tok = "[CHANNEL+1]" -> "%5BCHANNEL%2B1%5D"
      [] tok = "{CHANNEL+1}" -> "%7BCHANNEL%2B1%7D"
      [] tok = "a b"        -> "a+b"
      [] tok = "a+b"        -> "a%2Bb"
      [] OTHER              -> tok

\* url.QueryUnescape of a token
QueryUnescape(tok) ==
    CASE tok = "%5BUSERNAME%5D" -> "[USERNAME]"
      [] tok = "%5Bpass%5D"     -> "[pass]"
      [] tok = "%5BCHANNEL%5D"  -> "[CHANNEL]"
      [] tok = "%5BCHANNEL%2B1%5D" -> "[CHANNEL+1]"
      [] tok = "%7BCHANNEL%2B1%7D" -> "{CHANNEL+1}"
      [] tok = "a+b"            -> "a b"
      [] tok = "a%2Bb"          -> "a+b"
      [] OTHER                  -> tok

\* sort.Strings order of the keys url.Values.Encode writes
KeyRank(k) ==
    CASE k = "ch" -> 0 [] k = "password" -> 1 [] k = "pwd" -> 2 [] k = "res" -> 3
      [] k = "user" -> 4 [] k = "username" -> 5

ParseQuery_Mut(q) == q

\* url.ParseQuery: the pairs with their values unescaped
ParseQuery(q) ==
    [i \in DOMAIN q |->
        [q[i] EXCEPT !.val = [j \in DOMAIN @ |-> QueryUnescape(@[j])]]]

\* url.Values.Encode: the pairs sorted by key, values escaped
Encode(q) ==
    [i \in DOMAIN q |->
        LET p == CHOOSE p \in {q[j] : j \in DOMAIN q} :
                    Cardinality({j \in DOMAIN q : KeyRank(q[j].key) < KeyRank(p.key)})
                        = i - 1
        IN  [p EXCEPT !.val = [j \in DOMAIN @ |-> QueryEscape(@[j])]]]

\* url.Values.Has
Has(q, k) == \E i \in DOMAIN q : q[i].key = k

\* url.Values.Set on a list without the key: one more pair
SetNew(q, k, v) == Append(q, [key |-> k, val |-> v])

\* replaceQueryParams: without "?" the pattern is returned as it is; else the
\* query is parsed, user/username and password/pwd are set from the context,
\* and the query is rebuilt with Encode
replaceQueryParams(t, ctx) ==
    IF ~t.hasQ THEN t
    ELSE [t EXCEPT !.query =
            Encode([i \in DOMAIN ParseQuery(@) |->
                LET pr == ParseQuery(@)[i]
                IN  CASE pr.key \in {"user", "username"} ->
                            [pr EXCEPT !.val = ctx.username]
                      [] pr.key \in {"pwd", "password"} ->
                            [pr EXCEPT !.val = ctx.password]
                      [] OTHER -> pr])]

\* replacePlaceholders
replacePlaceholders(t, ctx, order) ==
    replaceQueryParams(ReplaceEach(t, order, ctx), ctx)

\* hasAuthenticationParams: the lower-cased path contains "user=", "pwd=", ...
hasAuthenticationParams(t) ==
    \E i \in DOMAIN t.query :
        t.query[i].key \in {"user", "username", "pwd", "password"}

\* the default port of a protocol
DefaultPort(protocol) ==
    CASE protocol = "https" -> 443
      [] protocol \in {"rtsp", "rtsps"} -> 554
      [] OTHER -> 80

\* a URL string by its parts; port 0 stands for no ":port"
URL(scheme, port, t) ==
    [scheme |-> scheme, hasUser |-> FALSE, user |-> << >>, pass |-> << >>,
     port |-> port, path |-> t.path, hasQ |-> t.hasQ, query |-> t.query]

\* u.User = url.UserPassword(ctx.Username, ctx.Password); u.String()
WithUser(u, ctx) ==
    [u EXCEPT !.hasUser = TRUE, !.user = ctx.username, !.pass = ctx.password]

\* ctx.Username != "" && ctx.Password != ""
HasCredentials(ctx) == ctx.username # << >> /\ ctx.password # << >>

\* BuildURL: port and protocol defaults, replacePlaceholders, then the URL by
\* protocol: rtsp embeds the credentials unless the path has auth parameters
\* and omits :554; http and https embed nothing and omit their default port;
\* every other protocol gets the generic form with the port
BuildURL(e, ctx, order) ==
    LET protocol == IF ctx.protocol = "" THEN e.protocol ELSE ctx.protocol
        port == IF ctx.port # 0 THEN ctx.port
                ELSE IF e.port # 0 THEN e.port
                ELSE DefaultPort(protocol)
        path == replacePlaceholders(e.url, ctx, order)
    IN  CASE protocol = "rtsp" ->
                IF HasCredentials(ctx) /\ ~hasAuthenticationParams(path)
                THEN WithUser(URL("rtsp", IF port = 554 THEN 0 ELSE port, path), ctx)
                ELSE URL("rtsp", IF port = 554 THEN 0 ELSE port, path)
          [] protocol \in {"http", "https"} ->
                URL(protocol, IF port = DefaultPort(protocol) THEN 0 ELSE port, path)
          [] OTHER -> URL(protocol, port, path)

\* addURL: append unless the same string was added before
addURL(list, u) == IF \E i \in DOMAIN list : list[i] = u THEN list ELSE Append(list, u)

\* q := u.Query(); "user" is set unless user/usr/username is present, "pwd"
\* unless pwd/password/pass is; u.RawQuery = q.Encode()
WithAuthQuery(u, ctx) ==
    LET q0 == ParseQuery(u.query)
        q1 == IF Has(q0, "user") \/ Has(q0, "username") THEN q0
              ELSE SetNew(q0, "user", ctx.username)
        q2 == IF Has(q1, "pwd") \/ Has(q1, "password") THEN q1
              ELSE SetNew(q1, "pwd", ctx.password)
    IN  [u EXCEPT !.query = Encode(q2), !.hasQ = TRUE]

\* the alternative names: q2 copies u.Query() and sets "username" unless
\* username/user/usr is present, "password" unless password/pwd/pass is
WithAltAuthQuery(u, ctx) ==
    LET q0 == ParseQuery(u.query)
        q1 == IF Has(q0, "user") \/ Has(q0, "username") THEN q0
              ELSE SetNew(q0, "username", ctx.username)
        q2 == IF Has(q1, "pwd") \/ Has(q1, "password") THEN q1
              ELSE SetNew(q1, "password", ctx.password)
    IN  [u EXCEPT !.query = Encode(q2), !.hasQ = TRUE]

\* strings.Contains(entry.URL, "[USERNAME]") || ... "[PASSWORD]"
HasAuthPlaceholder(t) ==
    \/ \E i \in DOMAIN t.path : t.path[i] \in {"[USERNAME]", "[PASSWORD]"}
    \/ \E i \in DOMAIN t.query : \E j \in DOMAIN t.query[i].val :
            t.query[i].val[j] \in {"[USERNAME]", "[PASSWORD]"}

\* the context with Username and Password cleared
NoAuth(ctx) == [ctx EXCEPT !.username = << >>, !.password = << >>]

\* BuildURLsFromEntry; o1, o2, o3 are the map orders of its calls of BuildURL
BuildURLsFromEntry(e, ctx, o1, o2, o3) ==
    CASE e.protocol = "bubble" ->
            LET base == BuildURL(e, [ctx EXCEPT !.protocol = "http"], o1)
            IN  IF HasCredentials(ctx) THEN <<WithUser(base, ctx)>> ELSE <<base>>
      [] e.protocol \in {"rtsp", "rtsps"} ->
            IF HasCredentials(ctx) THEN <<BuildURL(e, ctx, o1)>>
            ELSE <<BuildURL(e, NoAuth(ctx), o1)>>
      [] e.protocol \in {"http", "https"} ->
            IF HasCredentials(ctx)
            THEN LET urlNoAuth == BuildURL(e, NoAuth(ctx), o1)
                     urlBasic == BuildURL(e, NoAuth(ctx), o2)
                     urlWithParams == BuildURL(e, ctx, o3)
                     v12 == addURL(<<urlNoAuth>>, WithUser(urlBasic, ctx))
                     v3 == IF HasAuthPlaceholder(e.url)
                           THEN addURL(v12, urlWithParams)
                           ELSE addURL(addURL(v12, WithAuthQuery(urlWithParams, ctx)),
                                       WithAltAuthQuery(WithAuthQuery(urlWithParams, ctx), ctx))
                 IN  IF HasAuthPlaceholder(e.url)
                     THEN addURL(v3, WithUser(urlWithParams, ctx))
                     ELSE addURL(v3, WithAuthQuery(WithUser(urlNoAuth, ctx), ctx))
            ELSE <<BuildURL(e, ctx, o1)>>
      [] OTHER -> <<BuildURL(e, ctx, o1)>>

\* the orders in which the loop over the replacements map can visit the keys
Orders ==
    {o \in [1..Cardinality(Placeholders) -> Placeholders] :
        \A i, j \in DOMAIN o : i # j => o[i] # o[j]}

\* everything but the Builder's state
nonBuilderVars == <<reqVars, moreVars, onvifVars, handlerVars, wireVars, allStreams, scanPc,
                    ctxDone, streams, poolVars, progressCancelled, tickerVars,
                    collVars, sink, result, probes, directWorking>>

\* the scan, the handler, the ONVIF client, the wire and the Builder
coreVars == <<reqVars, onvifVars, handlerVars, wireVars, builderVars, allStreams,
              scanPc, ctxDone, streams, poolVars, progressCancelled, tickerVars,
              collVars, sink, result, probes, directWorking>>

\* one call of BuildURLsFromEntry(entry, ctx)
CallBuildURLsFromEntry ==
    /\ builderPc = "ready"
    /\ \E o1, o2, o3 \in Orders :
          urls' = BuildURLsFromEntry(entry, buildCtx, o1, o2, o3)
    /\ builderPc' = "built"
    /\ UNCHANGED <<entry, buildCtx, substOut, nonBuilderVars>>

\* replacePlaceholders(entry.URL, ctx), and once more on what it returned
CallReplacePlaceholders ==
    /\ builderPc = "ready"
    /\ \E o1, o2 \in Orders :
          LET once == replacePlaceholders(entry.url, buildCtx, o1)
          IN  substOut' = <<once, replacePlaceholders(once, buildCtx, o2)>>
    /\ builderPc' = "substituted"
    /\ UNCHANGED <<entry, buildCtx, urls, nonBuilderVars>>

\* ---------------------------------------------------------- SearchEngine --
\* A query is a sequence of characters.
QueryChars == {"a", "A", " ", "\t", "!", "-"}

\* strings.ToLower, for one character
ToLower(c) == IF c = "A" THEN "a" ELSE c

\* the class \s, which is also what strings.TrimSpace cuts
IsSpace(c) == c \in {" ", "\t"}

\* the rest of the string after its leading white space
RECURSIVE TrimLeft(_)
TrimLeft(str) ==
    IF str # << >> /\ IsSpace(Head(str)) THEN TrimLeft(Tail(str)) ELSE str

\* regexp `\s+` ReplaceAllString(normalized, " ")
RECURSIVE CollapseSpaces(_)
CollapseSpaces(str) ==
    IF str = << >> THEN << >>
    ELSE IF IsSpace(Head(str)) THEN <<" ">> \o CollapseSpaces(TrimLeft(str))
    ELSE <<Head(str)>> \o CollapseSpaces(Tail(str))

\* regexp `[^a-z0-9\s\-]` ReplaceAllString(normalized, " ")
ReplaceSpecial(str) ==
    [i \in DOMAIN str |->
        IF str[i] \in {"a", "-"} \/ IsSpace(str[i]) THEN str[i] ELSE " "]

\* the string read backwards
Reverse(str) == [i \in DOMAIN str |-> str[Len(str) + 1 - i]]

\* strings.TrimSpace
TrimSpace(str) == Reverse(TrimLeft(Reverse(TrimLeft(str))))

\* normalizeQuery: lower case, runs of white space to one space, special
\* characters to a space, trim
normalizeQuery(q) ==
    TrimSpace(ReplaceSpecial(CollapseSpaces([i \in DOMAIN q |-> ToLower(q[i])])))

\* normalizeQuery(query), and once more on what it returned
CallNormalizeQuery ==
    /\ searchPc = "ready"
    /\ normalized' = <<normalizeQuery(query), normalizeQuery(normalizeQuery(query))>>
    /\ searchPc' = "normalized"
    /\ UNCHANGED <<query, coreVars, loaderVars, fallbackVars, testerVars, sseVars>>

\* ---------------------------------------------------------------- Loader --
\* LoadBrand, LoadPopularPatterns and LoadQueryParameters have one shape:
\* look the entry up under RLock, on a miss read and decode the file with no
\* lock held, then store the result under Lock.
cacheHit_Mut(v) == FALSE

\* `cached, ok := l.brandsCache[brandID]; ok`, `l.patternsCache != nil`
cacheHit(v) == v # "none"

\* everything but the Loader's state
nonLoaderVars == <<coreVars, searchVars, fallbackVars, testerVars, sseVars>>

\* l.mu.RLock() of a call for key k
LoadRLock(c, k) ==
    /\ loaderPc[c] = "idle"
    /\ muWriter = 0
    /\ muReaders' = muReaders \cup {c}
    /\ loaderKey' = [loaderKey EXCEPT ![c] = k]
    /\ hitOnEntry' = [hitOnEntry EXCEPT ![c] = cache[k] # "none"]
    /\ loaderPc' = [loaderPc EXCEPT ![c] = "check"]
    /\ UNCHANGED <<files, cache, muWriter, loaded, returned, cacheWrites, nonLoaderVars>>

\* the lookup and l.mu.RUnlock(): a hit returns the cached value
LoadCheck(c) ==
    /\ loaderPc[c] = "check"
    /\ muReaders' = muReaders \ {c}
    /\ IF cacheHit(cache[loaderKey[c]])
       THEN /\ returned' = [returned EXCEPT ![c] = cache[loaderKey[c]]]
            /\ loaderPc' = [loaderPc EXCEPT ![c] = "done"]
       ELSE /\ loaderPc' = [loaderPc EXCEPT ![c] = "open"]
            /\ UNCHANGED returned
    /\ UNCHANGED <<files, cache, muWriter, loaderKey, loaded, hitOnEntry, cacheWrites,
                   nonLoaderVars>>

\* os.Open and decoder.Decode: an error returns, nothing is cached
LoadDecode(c) ==
    /\ loaderPc[c] = "open"
    /\ IF files[loaderKey[c]] = "missing"
       THEN /\ returned' = [returned EXCEPT ![c] = "error"]
            /\ loaderPc' = [loaderPc EXCEPT ![c] = "done"]
            /\ UNCHANGED loaded
       ELSE /\ loaded' = [loaded EXCEPT ![c] = files[loaderKey[c]]]
            /\ loaderPc' = [loaderPc EXCEPT ![c] = "lock"]
            /\ UNCHANGED returned
    /\ UNCHANGED <<files, cache, muReaders, muWriter, loaderKey, hitOnEntry, cacheWrites,
                   nonLoaderVars>>

\* l.mu.Lock()
LoadLock(c) ==
    /\ loaderPc[c] = "lock"
    /\ muReaders = {}
    /\ muWriter = 0
    /\ muWriter' = c
    /\ loaderPc' = [loaderPc EXCEPT ![c] = "store"]
    /\ UNCHANGED <<files, cache, muReaders, loaderKey, loaded, returned, hitOnEntry,
                   cacheWrites, nonLoaderVars>>

\* the assignment to the cache, l.mu.Unlock() and the return
LoadStore(c) ==
    /\ loaderPc[c] = "store"
    /\ cache' = [cache EXCEPT ![loaderKey[c]] = loaded[c]]
    /\ cacheWrites' = [cacheWrites EXCEPT ![loaderKey[c]] = @ + 1]
    /\ muWriter' = 0
    /\ returned' = [returned EXCEPT ![c] = loaded[c]]
    /\ loaderPc' = [loaderPc EXCEPT ![c] = "done"]
    /\ UNCHANGED <<files, muReaders, loaderKey, loaded, hitOnEntry, nonLoaderVars>>

\* -------------------------------------------------------- common streams --
\* A URL of a common stream: scheme, userinfo and path.
CommonURL(scheme, user, pass, path) ==
    [scheme |-> scheme, hasUser |-> user # "", user |-> user, pass |-> pass,
     path |-> path]

\* the paths getCommonRTSPStreams tries, two of each kind
CommonRTSPPaths == <<"/stream1", "/stream2">>
CommonHTTPPaths == <<"/snapshot.jpg", "/snap.jpg">>

\* getCommonRTSPStreams: the RTSP URLs embed the credentials when both are
\* given; the HTTP URLs never do and carry them in Metadata
getCommonRTSPStreams(username, password) ==
    [i \in DOMAIN CommonRTSPPaths |->
        [url |-> IF username # "" /\ password # ""
                 THEN CommonURL("rtsp", username, password, CommonRTSPPaths[i])
                 ELSE CommonURL("rtsp", "", "", CommonRTSPPaths[i]),
         type |-> "FFMPEG",
         metadata |-> [source |-> "common", username |-> "", password |-> ""]]]
    \o
    [i \in DOMAIN CommonHTTPPaths |->
        [url |-> CommonURL("http", "", "", CommonHTTPPaths[i]),
         type |-> "JPEG",
         metadata |-> [source |-> "common", username |-> username,
                       password |-> password]]]

\* what the Tester sends for a URL: testRTSP hands the URL to ffprobe as it
\* is; testHTTP sets Basic auth from the URL's userinfo, if it has both parts
TestStreamRequest(u) ==
    [sent |-> TRUE, url |-> u,
     basicAuth |-> IF u.scheme = "http" /\ u.hasUser /\ u.user # "" /\ u.pass # ""
                   THEN <<u.user, u.pass>> ELSE << >>]

\* no request made yet
NoRequest == [sent |-> FALSE, url |-> CommonURL("", "", "", ""), basicAuth |-> << >>]

\* everything but the common streams' state
nonFallbackVars == <<coreVars, searchVars, loaderVars, testerVars, sseVars>>

\* o.getCommonRTSPStreams(ip, username, password)
CallGetCommonRTSPStreams ==
    /\ commonPc = "ready"
    /\ commonStreams' = getCommonRTSPStreams(reqCreds.username, reqCreds.password)
    /\ probeRequests' = [i \in DOMAIN commonStreams' |-> NoRequest]
    /\ commonPc' = "listed"
    /\ UNCHANGED <<reqCreds, nonFallbackVars>>

\* the worker's s.tester.TestStream(ctx, stream.URL) for common stream i
WorkerTestStream(i) ==
    /\ commonPc = "listed"
    /\ ~probeRequests[i].sent
    /\ probeRequests' = [probeRequests EXCEPT
                            ![i] = TestStreamRequest(commonStreams[i].url)]
    /\ UNCHANGED <<reqCreds, commonStreams, commonPc, nonFallbackVars>>

\* ---------------------------------------------------------------- Tester --
\* Content-Type headers, and which of the texts the code looks for each contains
ContentTypes ==
    {"", "multipart/x-mixed-replace", "image/jpeg", "image/jpg",
     "application/vnd.apple.mpegurl", "application/x-mpegurl",
     "application/dash+xml", "video/mp4", "text/html; charset=utf-8",
     "text/plain", "application/octet-stream"}

\* strings.Contains(contentType, needle)
CtHas(ct, needle) ==
    <<ct, needle>> \in
        {<<"multipart/x-mixed-replace", "multipart">>,
         <<"image/jpeg", "image/jpeg">>, <<"image/jpg", "image/jpg">>,
         <<"application/vnd.apple.mpegurl", "application/vnd.apple.mpegurl">>,
         <<"application/x-mpegurl", "application/x-mpegurl">>,
         <<"application/dash+xml", "application/dash+xml">>,
         <<"video/mp4", "video">>,
         <<"text/html; charset=utf-8", "text/html">>,
         <<"text/plain", "text/plain">>}

\* A URL path is a sequence of pieces.
PathPieces == {"/video", "snapshot", "IMAGE", ".mjpg", ".m3u8", ".mpd"}

\* strings.ToLower, for one piece of the path
PathLower(piece) == IF piece = "IMAGE" THEN "image" ELSE piece

\* strings.Contains(urlPath, pattern), urlPath being the lower-cased path
PathHas(path, pattern) ==
    \E i \in DOMAIN path :
        <<PathLower(path[i]), pattern>> \in
            {<<"snapshot", "snapshot">>, <<"snapshot", "snap">>,
             <<"image", "image">>, <<".mjpg", ".mjpg">>,
             <<".m3u8", ".m3u8">>, <<".mpd", ".mpd">>}

jpegPatterns ==
    {".jpg", ".jpeg", "snapshot", "image", "picture", "snap", "photo", "capture"}

\* The body sample is a sequence of the bytes FF and D8 and of "--".
SampleBytes == {"FF", "D8", "--"}

\* n >= 3 && buffer[0] == 0xFF && buffer[1] == 0xD8 && buffer[2] == 0xFF
hasJPEGMagic(sample) ==
    Len(sample) >= 3 /\ sample[1] = "FF" /\ sample[2] = "D8" /\ sample[3] = "FF"

\* n > 0 && bytes.Contains(buffer[:n], []byte("--"))
hasMJPEGBoundary(sample) == \E i \in DOMAIN sample : sample[i] = "--"

validateHTTPStream_Mut(r) ==
    IF CtHas(r.contentType, "multipart")
    THEN [type |-> "MJPEG", working |-> hasMJPEGBoundary(r.sample),
          error |-> IF hasMJPEGBoundary(r.sample) THEN ""
                   ELSE "no MJPEG boundary found"]
    ELSE
    IF hasJPEGMagic(r.sample)
    THEN [type |-> IF hasMJPEGBoundary(r.sample) THEN "MJPEG" ELSE "JPEG",
          working |-> TRUE, error |-> ""]
    ELSE
    IF CtHas(r.contentType, "image/jpeg") \/ CtHas(r.contentType, "image/jpg")
    THEN [type |-> "JPEG", working |-> TRUE, error |-> ""]
    ELSE
    IF CtHas(r.contentType, "text/html") \/ CtHas(r.contentType, "text/plain")
    THEN [type |-> "", working |-> FALSE,
          error |-> "web interface, not a video stream"]
    ELSE
    IF \E pattern \in jpegPatterns : PathHas(r.path, pattern)
    THEN [type |-> "JPEG", working |-> TRUE, error |-> ""]
    ELSE
    IF PathHas(r.path, ".mjpg") \/ PathHas(r.path, ".mjpeg")
    THEN [type |-> "MJPEG", working |-> TRUE, error |-> ""]
    ELSE
    IF \/ PathHas(r.path, ".m3u8")
       \/ CtHas(r.contentType, "application/vnd.apple.mpegurl")
       \/ CtHas(r.contentType, "application/x-mpegurl")
    THEN [type |-> "HLS", working |-> TRUE, error |-> ""]
    ELSE
    IF PathHas(r.path, ".mpd") \/ CtHas(r.contentType, "application/dash+xml")
    THEN [type |-> "MPEG-DASH", working |-> TRUE, error |-> ""]
    ELSE
    IF CtHas(r.contentType, "video")
    THEN [type |-> "HTTP_VIDEO", working |-> TRUE, error |-> ""]
    ELSE
    [type |-> "HTTP_UNKNOWN", working |-> TRUE, error |-> ""]

\* validateHTTPStream: the checks in the order of the code, each returning
validateHTTPStream(r) ==
    IF CtHas(r.contentType, "multipart")
    THEN [type |-> "MJPEG", working |-> hasMJPEGBoundary(r.sample),
          error |-> IF hasMJPEGBoundary(r.sample) THEN ""
                   ELSE "no MJPEG boundary found"]
    ELSE
    IF hasJPEGMagic(r.sample)
    THEN [type |-> IF hasMJPEGBoundary(r.sample) THEN "MJPEG" ELSE "JPEG",
          working |-> TRUE, error |-> ""]
    ELSE
    IF CtHas(r.contentType, "image/jpeg") \/ CtHas(r.contentType, "image/jpg")
    THEN [type |-> "JPEG", working |-> TRUE, error |-> ""]
    ELSE
    IF \E pattern \in jpegPatterns : PathHas(r.path, pattern)
    THEN [type |-> "JPEG", working |-> TRUE, error |-> ""]
    ELSE
    IF PathHas(r.path, ".mjpg") \/ PathHas(r.path, ".mjpeg")
    THEN [type |-> "MJPEG", working |-> TRUE, error |-> ""]
    ELSE
    IF \/ PathHas(r.path, ".m3u8")
       \/ CtHas(r.contentType, "application/vnd.apple.mpegurl")
       \/ CtHas(r.contentType, "application/x-mpegurl")
    THEN [type |-> "HLS", working |-> TRUE, error |-> ""]
    ELSE
    IF PathHas(r.path, ".mpd") \/ CtHas(r.contentType, "application/dash+xml")
    THEN [type |-> "MPEG-DASH", working |-> TRUE, error |-> ""]
    ELSE
    IF CtHas(r.contentType, "video")
    THEN [type |-> "HTTP_VIDEO", working |-> TRUE, error |-> ""]
    ELSE
    IF CtHas(r.contentType, "text/html") \/ CtHas(r.contentType, "text/plain")
    THEN [type |-> "", working |-> FALSE,
          error |-> "web interface, not a video stream"]
    ELSE
    [type |-> "HTTP_UNKNOWN", working |-> TRUE, error |-> ""]

\* The substreams of ffprobe's report: codec_type, codec_name, width, height,
\* avg_frame_rate as <<num, den>> (<< >> if the field is empty) and bit_rate
\* (0 if the field is empty).
SubStream(ty, name, w, h, rate, br) ==
    [codecType |-> ty, codecName |-> name, width |-> w, height |-> h,
     avgFrameRate |-> rate, bitRate |-> br]

SubStreams ==
    {SubStream("video", "h264", 1920, 1080, <<25, 1>>, 4000),
     SubStream("video", "hevc", 640, 360, <<30000, 1001>>, 0),
     SubStream("video", "mjpeg", 320, 240, << >>, 500),
     SubStream("audio", "aac", 0, 0, <<0, 0>>, 64)}

\* one round of the loop over probeResult.Streams
ExtractStream(res, st) ==
    IF st.codecType = "video"
    THEN [res EXCEPT
            !.codec = st.codecName,
            !.resolution = <<st.width, st.height>>,
            !.fps = IF st.avgFrameRate # << >> /\ st.avgFrameRate[2] > 0
                    THEN st.avgFrameRate[1] \div st.avgFrameRate[2] ELSE @,
            !.bitrate = IF st.bitRate # 0 THEN st.bitRate ELSE @]
    ELSE IF st.codecType = "audio" THEN [res EXCEPT !.hasAudio = TRUE]
    ELSE res

\* for _, stream := range probeResult.Streams
RECURSIVE ExtractStreams(_, _)
ExtractStreams(res, sts) ==
    IF sts = << >> THEN res
    ELSE ExtractStreams(ExtractStream(res, Head(sts)), Tail(sts))

\* testRTSP after ffprobe has run and its output is parsed
testRTSP(out) ==
    LET res == ExtractStreams([NoRTSPResult EXCEPT !.working = out.streams # << >>,
                                                  !.type = "FFMPEG"],
                              out.streams)
    IN  [res EXCEPT
            !.bitrate = IF @ = 0 /\ out.formatBitRate # 0 THEN out.formatBitRate ELSE @,
            !.error = IF res.working THEN "" ELSE "no streams found"]

\* everything but the Tester's state
nonTesterVars == <<coreVars, searchVars, loaderVars, fallbackVars, sseVars>>

\* t.validateHTTPStream(resp, result) in testHTTP, for a 200 response
CallValidateHTTPStream ==
    /\ testerPc = "ready"
    /\ httpResult' = validateHTTPStream(httpResp)
    /\ testerPc' = "validated"
    /\ UNCHANGED <<httpResp, ffprobeOut, rtspResult, nonTesterVars>>

\* ------------------------------------------------------------ SSE server --
\* Channel: make(chan Event, 100) of every client
ClientChanCap == 100

nonSseVars == <<coreVars, searchVars, loaderVars, fallbackVars, testerVars>>

\* case client.Channel <- event of a select with a default: the send is taken
\* while the buffer has room
ClientChanHasRoom(n) == n < ClientChanCap

\* s.register, s.unregister and s.broadcast are unbuffered and are received
\* only by the select of the server loop: a send on one of them completes
\* when the loop stands at that select
LoopAtSelect(pc) == pc = "select"

\* ServeHTTP of client c: s.register <- client, received by the loop, which
\* stores the client in s.clients
ServeHTTPRegister(c) ==
    /\ clientPc[c] = "none"
    /\ LoopAtSelect(loopPc)
    /\ sseClients' = sseClients \cup {c}
    /\ clientPc' = [clientPc EXCEPT ![c] = "registered"]
    /\ UNCHANGED <<clientChan, clientClosed, loopPc, loopTodo, loopClient, nonSseVars>>

\* ServeHTTP: s.SendToClient(client, connected); a send on the closed channel
\* panics
ServeHTTPConnected(c) ==
    /\ clientPc[c] = "registered"
    /\ IF clientClosed[c]
       THEN /\ clientPc' = [clientPc EXCEPT ![c] = "panicked"]
            /\ UNCHANGED clientChan
       ELSE /\ clientPc' = [clientPc EXCEPT ![c] = "listening"]
            /\ clientChan' = [clientChan EXCEPT ![c] =
                                 IF ClientChanHasRoom(@) THEN @ + 1 ELSE @]
    /\ UNCHANGED <<sseClients, clientClosed, loopPc, loopTodo, loopClient, nonSseVars>>

\* ServeHTTP: case event := <-client.Channel, writeEvent succeeded
ServeHTTPRead(c) ==
    /\ clientPc[c] = "listening"
    /\ clientChan[c] > 0
    /\ clientChan' = [clientChan EXCEPT ![c] = @ - 1]
    /\ UNCHANGED <<sseClients, clientPc, clientClosed, loopPc, loopTodo, loopClient,
                   nonSseVars>>

\* ServeHTTP returns (ctx.Done(), the request's context, or a failed write);
\* the deferred function stands at s.unregister <- client
ServeHTTPReturn(c) ==
    /\ clientPc[c] = "listening"
    /\ clientPc' = [clientPc EXCEPT ![c] = "leaving"]
    /\ UNCHANGED <<sseClients, clientChan, clientClosed, loopPc, loopTodo, loopClient,
                   nonSseVars>>

\* the loop: case client := <-s.unregister, sent by the deferred function of
\* ServeHTTP
LoopUnregister(c) ==
    /\ clientPc[c] = "leaving"
    /\ LoopAtSelect(loopPc)
    /\ IF c \in sseClients
       THEN /\ sseClients' = sseClients \ {c}
            /\ clientClosed' = [clientClosed EXCEPT ![c] = TRUE]
       ELSE UNCHANGED <<sseClients, clientClosed>>
    /\ clientPc' = [clientPc EXCEPT ![c] = "gone"]
    /\ UNCHANGED <<clientChan, loopPc, loopTodo, loopClient, nonSseVars>>

\* the loop: case event := <-s.broadcast, sent by a call of Broadcast; the
\* range over s.clients begins
LoopBroadcast ==
    /\ LoopAtSelect(loopPc)
    /\ loopPc' = "range"
    /\ loopTodo' = sseClients
    /\ UNCHANGED <<sseClients, clientPc, clientChan, clientClosed, loopClient, nonSseVars>>

\* one iteration of the range, in the order the map yields: the event is
\* buffered, or on a full channel the loop goes to s.unregister <- client.
\* Nothing receives from s.unregister while the loop is not at its select, so
\* no step of the loop follows that send.
LoopDeliver(c) ==
    /\ loopPc = "range"
    /\ c \in loopTodo
    /\ loopTodo' = loopTodo \ {c}
    /\ IF ClientChanHasRoom(clientChan[c])
       THEN /\ clientChan' = [clientChan EXCEPT ![c] = @ + 1]
            /\ UNCHANGED <<loopPc, loopClient>>
       ELSE /\ loopPc' = "unregister_send"
            /\ loopClient' = c
            /\ UNCHANGED clientChan
    /\ UNCHANGED <<sseClients, clientPc, clientClosed, nonSseVars>>

\* the range has visited every client: back to the select
LoopRangeDone ==
    /\ loopPc = "range"
    /\ loopTodo = {}
    /\ loopPc' = "select"
    /\ UNCHANGED <<sseClients, clientPc, clientChan, clientClosed, loopTodo, loopClient,
                   nonSseVars>>

\* the loop: case <-ctx.Done(): every client is cancelled and its channel
\* closed, and the goroutine returns
LoopCtxDone ==
    /\ LoopAtSelect(loopPc)
    /\ clientClosed' = [c \in SseClientIds |-> clientClosed[c] \/ c \in sseClients]
    /\ loopPc' = "stopped"
    /\ UNCHANGED <<sseClients, clientPc, clientChan, loopTodo, loopClient, nonSseVars>>

NextSse ==
    \/ \E c \in SseClientIds : ServeHTTPRegister(c)
    \/ \E c \in SseClientIds : ServeHTTPConnected(c)
    \/ \E c \in SseClientIds : ServeHTTPRead(c)
    \/ \E c \in SseClientIds : ServeHTTPReturn(c)
    \/ \E c \in SseClientIds : LoopUnregister(c)
    \/ LoopBroadcast
    \/ \E c \in SseClientIds : LoopDeliver(c)
    \/ LoopRangeDone
    \/ LoopCtxDone

\* ------------------------------------------------------------- ServeHTTP --
\* if req.ModelLimit <= 0 { = 6 }; Timeout <= 0 { = 240 }; MaxStreams <= 0 { = 10 }
SetDefaults(r) ==
    [r EXCEPT !.modelLimit = IF @ <= 0 THEN 6 ELSE @,
              !.timeout    = IF @ <= 0 THEN 240 ELSE @,
              !.maxStreams = IF @ <= 0 THEN 10 ELSE @]

\* h.validator.Struct(req) == nil, by the validate tags of the request type
validateStruct(r) ==
    /\ r.modelLimit >= 1 /\ r.modelLimit <= 20
    /\ r.timeout >= 10 /\ r.timeout <= 600
    /\ r.maxStreams >= 1 /\ r.maxStreams <= 50
    /\ r.target # ""
    /\ r.channel >= 0 /\ r.channel <= 255

\* ServeHTTP up to the call of Scan: method check, decode, defaults,
\* validation; the response writer of the HTTP server is a Flusher
ServeHTTP ==
    /\ handlerPc = "recv"
    /\ IF httpReq.method # "POST"
       THEN /\ httpStatus' = 405
            /\ handlerPc' = "rejected"
            /\ UNCHANGED maxStreams
       ELSE IF ~httpReq.decodes \/ ~validateStruct(SetDefaults(httpReq))
       THEN /\ httpStatus' = 400
            /\ handlerPc' = "rejected"
            /\ UNCHANGED maxStreams
       ELSE /\ httpStatus' = 200
            /\ handlerPc' = "scanning"
            /\ maxStreams' = SetDefaults(httpReq).maxStreams
    /\ UNCHANGED <<target, candidates, poolSize, sourceVars, builderVars, moreVars, onvifVars, wireVars,
                   httpReq,
                   allStreams, scanPc, ctxDone, streams, poolVars,
                   progressCancelled, tickerVars, collVars, sink, result,
                   probes, directWorking>>

\* ------------------------------------------------------------------ Scan --
\* Scan: defaults, context.WithTimeout, SendJSON("scan_started")
ScanStarted ==
    /\ handlerPc = "scanning"
    /\ scanPc = "init"
    /\ SendJSON(Event("scan_started", NoStream, 0, 0, 0))
    /\ scanPc' = "started"
    /\ UNCHANGED <<reqVars, libVars, allStreams, ctxDone, streams, poolVars, progressCancelled,
                   tickerVars, collVars, result, probes, directWorking>>

\* scanDirectStream: s.tester.TestStream(ctx, req.Target) is invoked
DirectProbeStart ==
    /\ scanPc = "started"
    /\ isDirectStreamURL(target)
    /\ probes' = probes + 1
    /\ scanPc' = IF ctxDone THEN "direct_probe_cancelled" ELSE "direct_probe"
    /\ UNCHANGED <<reqVars, libVars, allStreams, ctxDone, streams, poolVars, progressCancelled,
                   tickerVars, collVars, sink, result, directWorking>>

\* Outcomes TestStream can return: a probe started on a context that is
\* already done fails (NewRequestWithContext / exec.CommandContext), any
\* other probe returns either.
TestStreamOutcomes(startedCancelled) ==
    IF startedCancelled THEN {FALSE} ELSE BOOLEAN

\* faulty variant: stream_found is sent whatever the probe returned
DirectEvent_Mut(working) == Event("stream_found", TestedStream(0), 0, 0, 0)

\* the event scanDirectStream sends for a probe outcome
DirectEvent(working) ==
    IF working THEN Event("stream_found", TestedStream(0), 0, 0, 0)
               ELSE Event("stream_failed", NoStream, 0, 0, 0)

\* the result scanDirectStream fills in for a probe outcome
DirectResult(working) ==
    [TotalTested |-> 1,
     TotalFound  |-> IF working THEN 1 ELSE 0,
     Streams     |-> IF working THEN 1 ELSE 0]

\* scanDirectStream after TestStream returned, up to the return of Scan
\* (defer cancel() closes scanCtx)
scanDirectStream ==
    /\ scanPc \in {"direct_probe", "direct_probe_cancelled"}
    /\ \E working \in TestStreamOutcomes(scanPc = "direct_probe_cancelled") :
          /\ directWorking' = IF working THEN "working" ELSE "failed"
          /\ result' = DirectResult(working)
          /\ SendJSON(DirectEvent(working))
    /\ scanPc' = "returned"
    /\ ctxDone' = TRUE
    /\ UNCHANGED <<reqVars, libVars, allStreams, streams, poolVars, progressCancelled,
                   tickerVars, collVars, probes>>

\* Scan: extractIP returned "": SendError, return result, err
InvalidTarget ==
    /\ scanPc = "started"
    /\ ~isDirectStreamURL(target)
    /\ extractIPEmpty(target)
    /\ SendJSON(Event("error", NoStream, 0, 0, 0))
    /\ scanPc' = "returned"
    /\ ctxDone' = TRUE
    /\ UNCHANGED <<reqVars, libVars, allStreams, streams, poolVars, progressCancelled,
                   tickerVars, collVars, result, probes, directWorking>>

\* faulty variant: no URL is ever found in urlMap
urlMapHas_Mut(acc, u) == FALSE

\* urlMap[u]: u is the URL of a stream appended before
urlMapHas(acc, u) == \E j \in DOMAIN acc : acc[j].url = u

\* for _, stream := range list { if !urlMap[stream.URL] { append; mark } }
RECURSIVE AppendUnique(_, _)
AppendUnique(acc, list) ==
    IF list = << >> THEN acc
    ELSE AppendUnique(IF urlMapHas(acc, Head(list).url) THEN acc
                      ELSE Append(acc, Head(list)),
                      Tail(list))

\* what a source contributes: nothing when its call returned an error
SourceStreams(name, list, errs) == IF name \in errs THEN << >> ELSE list

\* collectStreams: ONVIF first, then model patterns, then popular patterns
CollectStreams(onv, mod, pop, errs) ==
    AppendUnique(AppendUnique(AppendUnique(<< >>,
        SourceStreams("onvif", onv, errs)),
        SourceStreams("model", mod, errs)),
        SourceStreams("popular", pop, errs))

\* faulty variant: a failed source makes collectStreams fail
collectStreamsErr_Mut(errs) == errs # {}

\* the error collectStreams returns: every source error is only logged and
\* the function ends with return allStreams, nil
collectStreamsErr(errs) == FALSE

KindsOf(list) == [i \in DOMAIN list |-> list[i].kind]

\* Scan: streams, err := s.collectStreams(...); on an error SendError and
\* return (with the deferred cancel), else go on with the list
collectStreams ==
    /\ scanPc = "started"
    /\ ~isDirectStreamURL(target)
    /\ ~extractIPEmpty(target)
    /\ allStreams' = CollectStreams(onvifStreams, modelStreams, popularStreams, srcErr)
    /\ IF collectStreamsErr(srcErr)
       THEN /\ SendJSON(Event("error", NoStream, 0, 0, 0))
            /\ scanPc' = "returned"
            /\ ctxDone' = TRUE
            /\ UNCHANGED streams
       ELSE /\ streams' = KindsOf(allStreams')
            /\ scanPc' = "collected"
            /\ UNCHANGED <<sink, ctxDone>>
    /\ UNCHANGED <<reqVars, libVars, poolVars, progressCancelled,
                   tickerVars, collVars, result, probes, directWorking>>

\* Scan: SendJSON("progress", {0, 0, len(streams)}), then the entry of
\* testStreamsConcurrently: sem, streamsChan, progressCtx, go ticker,
\* go collector
StartTesting ==
    /\ scanPc = "collected"
    /\ SendJSON(Event("progress", NoStream, 0, 0, Len(streams)))
    /\ worker' = [i \in 1..Len(streams) |-> "idle"]
    /\ tickerPc' = "select"
    /\ collPc' = "recv"
    /\ scanPc' = "testing"
    /\ UNCHANGED <<reqVars, libVars, allStreams, ctxDone, streams, next, sem, streamsChan, chanClosed,
                   tested, found, progressCancelled, currentTested, lastTested,
                   tickerFound, collStream, collTested, collFound, collRemaining,
                   result, probes, directWorking>>

\* ------------------------------------------------- testStreamsConcurrently --
\* select { case <-ctx.Done(): ...; break; default: }: the break leaves the
\* select statement, not the range loop, so a done context never ends the loop
CtxCheckBreaksLoop(done) == FALSE

\* if int(atomic.LoadInt32(&found)) >= req.MaxStreams { break }
MaxStreamsReached(f, max) == f >= max

\* One iteration of the range loop: the context check, the found check, then
\* wg.Add(1) and go func(stream) for the element.  Leaving the loop (break or
\* exhaustion) takes the dispatcher to wg.Wait().
Dispatch ==
    /\ scanPc = "testing"
    /\ IF next > Len(streams)
         \/ CtxCheckBreaksLoop(ctxDone)
         \/ MaxStreamsReached(found, maxStreams)
       THEN /\ scanPc' = "wgwait"
            /\ UNCHANGED <<next, worker>>
       ELSE /\ worker' = [worker EXCEPT ![next] = "spawned"]
            /\ next' = next + 1
            /\ scanPc' = scanPc
    /\ UNCHANGED <<reqVars, libVars, allStreams, ctxDone, streams, sem, streamsChan, chanClosed,
                   tested, found, progressCancelled, tickerVars, collVars,
                   sink, result, probes, directWorking>>

\* faulty variant: the semaphore admits one sender too many
SemCanAcquire_Mut(held, cap) == held <= cap

\* sem <- struct{}{} can proceed while the buffer has room
SemCanAcquire(held, cap) == held < cap

\* faulty variant: a channel that never has room
ChanCanSend_Mut(ch) == Len(ch) < 0

\* streamsChan <- stream can proceed while the buffer has room
ChanCanSend(ch) == Len(ch) < StreamsChanCap

\* faulty variant: the bypass test looks at the type only
BypassesProbe_Mut(k) == StreamType(k) = "ONVIF"

\* stream.Type == "ONVIF" && stream.Working
BypassesProbe(k) == StreamType(k) = "ONVIF" /\ StreamWorking(k)

\* Worker i: acquire the semaphore; a pre-validated ONVIF device service
\* (Type == "ONVIF" && Working) skips the probe, anything else invokes
\* s.tester.TestStream(ctx, stream.URL)
WorkerAcquire(i) ==
    /\ worker[i] = "spawned"
    /\ SemCanAcquire(sem, poolSize)
    /\ sem' = sem + 1
    /\ IF BypassesProbe(streams[i])
       THEN /\ worker' = [worker EXCEPT ![i] = "onvif"]
            /\ UNCHANGED probes
       ELSE /\ worker' = [worker EXCEPT ![i] =
                            IF ctxDone THEN "probing_cancelled" ELSE "probing"]
            /\ probes' = probes + 1
    /\ UNCHANGED <<reqVars, libVars, allStreams, scanPc, ctxDone, streams, next, streamsChan,
                   chanClosed, tested, found, progressCancelled, tickerVars,
                   collVars, sink, result, directWorking>>

\* Worker i: TestStream returns; atomic.AddInt32(&tested, 1)
WorkerTested(i) ==
    /\ worker[i] \in {"probing", "probing_cancelled"}
    /\ \E working \in TestStreamOutcomes(worker[i] = "probing_cancelled") :
          worker' = [worker EXCEPT ![i] = IF working THEN "working" ELSE "failed"]
    /\ tested' = tested + 1
    /\ UNCHANGED <<reqVars, libVars, allStreams, scanPc, ctxDone, streams, next, sem, streamsChan,
                   chanClosed, found, progressCancelled, tickerVars, collVars,
                   sink, result, probes, directWorking>>

\* Worker i, ONVIF device service: atomic.AddInt32(&tested, 1) without a probe
WorkerOnvifTested(i) ==
    /\ worker[i] = "onvif"
    /\ worker' = [worker EXCEPT ![i] = "working"]
    /\ tested' = tested + 1
    /\ UNCHANGED <<reqVars, libVars, allStreams, scanPc, ctxDone, streams, next, sem, streamsChan,
                   chanClosed, found, progressCancelled, tickerVars, collVars,
                   sink, result, probes, directWorking>>

\* Worker i: atomic.AddInt32(&found, 1)
WorkerFound(i) ==
    /\ worker[i] = "working"
    /\ worker' = [worker EXCEPT ![i] = "counted"]
    /\ found' = found + 1
    /\ UNCHANGED <<reqVars, libVars, allStreams, scanPc, ctxDone, streams, next, sem, streamsChan,
                   chanClosed, tested, progressCancelled, tickerVars, collVars,
                   sink, result, probes, directWorking>>

\* Worker i: streamsChan <- discoveredStream
WorkerSend(i) ==
    /\ worker[i] = "counted"
    /\ ChanCanSend(streamsChan)
    /\ streamsChan' = Append(streamsChan,
                              IF BypassesProbe(streams[i])
                              THEN CandidateStream(streams[i], i)
                              ELSE TestedStream(i))
    /\ worker' = [worker EXCEPT ![i] = "sent"]
    /\ UNCHANGED <<reqVars, libVars, allStreams, scanPc, ctxDone, streams, next, sem, chanClosed,
                   tested, found, progressCancelled, tickerVars, collVars,
                   sink, result, probes, directWorking>>

\* Worker i returns: the deferred <-sem, then the deferred wg.Done()
WorkerReturn(i) ==
    /\ worker[i] \in {"failed", "sent"}
    /\ sem' = sem - 1
    /\ worker' = [worker EXCEPT ![i] = "done"]
    /\ UNCHANGED <<reqVars, libVars, allStreams, scanPc, ctxDone, streams, next, streamsChan,
                   chanClosed, tested, found, progressCancelled, tickerVars,
                   collVars, sink, result, probes, directWorking>>

\* wg.Wait() returning without waiting for the workers
WaitGroupZero_Mut == TRUE

\* wg.Wait() returns once every spawned worker has called wg.Done()
WaitGroupZero == \A i \in Workers : worker[i] \in {"idle", "done"}

\* wg.Wait(); close(streamsChan); result.TotalTested/TotalFound from the
\* counters; return, which runs the deferred cancelProgress().  Nothing here
\* waits for the collector or the ticker.
FinishTesting ==
    /\ scanPc = "wgwait"
    /\ WaitGroupZero
    /\ chanClosed' = TRUE
    /\ result' = [result EXCEPT !.TotalTested = tested, !.TotalFound = found]
    /\ progressCancelled' = TRUE
    /\ scanPc' = "tested"
    /\ UNCHANGED <<reqVars, libVars, allStreams, ctxDone, streams, next, worker, sem, streamsChan,
                   tested, found, tickerVars, collVars, sink, probes, directWorking>>

\* Scan: SendJSON("complete", {result.TotalTested, result.TotalFound, ...})
SendComplete ==
    /\ scanPc = "tested"
    /\ SendJSON(Event("complete", NoStream, result.TotalTested, result.TotalFound, 0))
    /\ scanPc' = "completed"
    /\ UNCHANGED <<reqVars, libVars, allStreams, ctxDone, streams, poolVars, progressCancelled,
                   tickerVars, collVars, result, probes, directWorking>>

\* Scan: SendJSON("done", ...)
SendDone ==
    /\ scanPc = "completed"
    /\ SendJSON(Event("done", NoStream, 0, 0, 0))
    /\ scanPc' = "done_sent"
    /\ UNCHANGED <<reqVars, libVars, allStreams, ctxDone, streams, poolVars, progressCancelled,
                   tickerVars, collVars, result, probes, directWorking>>

\* Scan: time.Sleep(100ms); return result, nil (defer cancel())
ScanReturn ==
    /\ scanPc = "done_sent"
    /\ scanPc' = "returned"
    /\ ctxDone' = TRUE
    /\ UNCHANGED <<reqVars, libVars, allStreams, streams, poolVars, progressCancelled,
                   tickerVars, collVars, sink, result, probes, directWorking>>

\* ------------------------------------------------------- progress ticker --
\* case <-progressCtx.Done(): return
TickerExit ==
    /\ tickerPc = "select"
    /\ progressCtxDone
    /\ tickerPc' = "exited"
    /\ UNCHANGED <<reqVars, libVars, allStreams, scanPc, ctxDone, streams, poolVars, progressCancelled,
                   currentTested, lastTested, tickerFound, collVars, sink,
                   result, probes, directWorking>>

\* case <-ticker.C: currentTested := atomic.LoadInt32(&tested); the event is
\* built only if currentTested != lastTested.  A select with both cases ready
\* may take either, so a tick can still be served after cancellation.
TickerTick ==
    /\ tickerPc = "select"
    /\ currentTested' = IF tested # lastTested THEN tested ELSE 0
    /\ tickerPc' = IF tested # lastTested THEN "load_found" ELSE "select"
    /\ UNCHANGED <<reqVars, libVars, allStreams, scanPc, ctxDone, streams, poolVars, progressCancelled,
                   lastTested, tickerFound, collVars, sink, result, probes,
                   directWorking>>

\* Found: int(atomic.LoadInt32(&found))
TickerLoadFound ==
    /\ tickerPc = "load_found"
    /\ tickerFound' = found
    /\ tickerPc' = "send"
    /\ UNCHANGED <<reqVars, libVars, allStreams, scanPc, ctxDone, streams, poolVars, progressCancelled,
                   currentTested, lastTested, collVars, sink, result, probes,
                   directWorking>>

\* streamWriter.SendJSON("progress", ...); lastTested = currentTested.  The
\* per-iteration locals are dead afterwards and are reset.
TickerSend ==
    /\ tickerPc = "send"
    /\ SendJSON(Event("progress", NoStream, currentTested, tickerFound,
                      Len(streams) - currentTested))
    /\ lastTested' = currentTested
    /\ currentTested' = 0
    /\ tickerFound' = 0
    /\ tickerPc' = "select"
    /\ UNCHANGED <<reqVars, libVars, allStreams, scanPc, ctxDone, streams, poolVars, progressCancelled,
                   collVars, result, probes, directWorking>>

\* ------------------------------------------------------ result collector --
\* for stream := range streamsChan: receive one; result.Streams = append(...)
CollectorRecv ==
    /\ collPc = "recv"
    /\ Len(streamsChan) > 0
    /\ collStream' = Head(streamsChan)
    /\ streamsChan' = Tail(streamsChan)
    /\ result' = [result EXCEPT !.Streams = @ + 1]
    /\ collPc' = "send_found"
    /\ UNCHANGED <<reqVars, libVars, allStreams, scanPc, ctxDone, streams, next, worker, sem,
                   chanClosed, tested, found, progressCancelled, tickerVars,
                   collTested, collFound, collRemaining, sink, probes,
                   directWorking>>

\* the range loop ends when the channel is closed and drained
CollectorExit ==
    /\ collPc = "recv"
    /\ Len(streamsChan) = 0
    /\ chanClosed
    /\ collPc' = "exited"
    /\ UNCHANGED <<reqVars, libVars, allStreams, scanPc, ctxDone, streams, poolVars, progressCancelled,
                   tickerVars, collStream, collTested, collFound, collRemaining,
                   sink, result, probes, directWorking>>

\* streamWriter.SendJSON("stream_found", {"stream": stream})
CollectorSendFound ==
    /\ collPc = "send_found"
    /\ SendJSON(Event("stream_found", collStream, 0, 0, 0))
    /\ collPc' = "load_tested"
    /\ UNCHANGED <<reqVars, libVars, allStreams, scanPc, ctxDone, streams, poolVars, progressCancelled,
                   tickerVars, collStream, collTested, collFound, collRemaining,
                   result, probes, directWorking>>

\* Tested: int(atomic.LoadInt32(&tested))
CollectorLoadTested ==
    /\ collPc = "load_tested"
    /\ collTested' = tested
    /\ collPc' = "load_found"
    /\ UNCHANGED <<reqVars, libVars, allStreams, scanPc, ctxDone, streams, poolVars, progressCancelled,
                   tickerVars, collStream, collFound, collRemaining, sink,
                   result, probes, directWorking>>

\* Found: int(atomic.LoadInt32(&found))
CollectorLoadFound ==
    /\ collPc = "load_found"
    /\ collFound' = found
    /\ collPc' = "load_remaining"
    /\ UNCHANGED <<reqVars, libVars, allStreams, scanPc, ctxDone, streams, poolVars, progressCancelled,
                   tickerVars, collStream, collTested, collRemaining, sink,
                   result, probes, directWorking>>

\* Remaining: len(streams) - int(atomic.LoadInt32(&tested))
CollectorLoadRemaining ==
    /\ collPc = "load_remaining"
    /\ collRemaining' = Len(streams) - tested
    /\ collPc' = "send_progress"
    /\ UNCHANGED <<reqVars, libVars, allStreams, scanPc, ctxDone, streams, poolVars, progressCancelled,
                   tickerVars, collStream, collTested, collFound, sink,
                   result, probes, directWorking>>

\* streamWriter.SendJSON("progress", ...), then the next iteration; the loop
\* variable and the loaded values are dead afterwards and are reset.
CollectorSendProgress ==
    /\ collPc = "send_progress"
    /\ SendJSON(Event("progress", NoStream, collTested, collFound, collRemaining))
    /\ collPc' = "recv"
    /\ collStream' = NoStream
    /\ collTested' = 0
    /\ collFound' = 0
    /\ collRemaining' = 0
    /\ UNCHANGED <<reqVars, libVars, allStreams, scanPc, ctxDone, streams, poolVars, progressCancelled,
                   tickerVars, result, probes, directWorking>>

\* --------------------------------------------------------- specification --
Next ==
    \/ CancelCtx
    \/ ScanStarted
    \/ DirectProbeStart
    \/ scanDirectStream
    \/ InvalidTarget
    \/ collectStreams
    \/ StartTesting
    \/ Dispatch
    \/ \E i \in Workers : WorkerAcquire(i)
    \/ \E i \in Workers : WorkerTested(i)
    \/ \E i \in Workers : WorkerOnvifTested(i)
    \/ \E i \in Workers : WorkerFound(i)
    \/ \E i \in Workers : WorkerSend(i)
    \/ \E i \in Workers : WorkerReturn(i)
    \/ FinishTesting
    \/ SendComplete
    \/ SendDone
    \/ ScanReturn
    \/ TickerExit
    \/ TickerTick
    \/ TickerLoadFound
    \/ TickerSend
    \/ CollectorRecv
    \/ CollectorExit
    \/ CollectorSendFound
    \/ CollectorLoadTested
    \/ CollectorLoadFound
    \/ CollectorLoadRemaining
    \/ CollectorSendProgress


Init == InitWith(MaxCandidates, MaxWorkers, MaxStreamsCap)

Spec == Init /\ [][Next]_vars

\* The scan without the progress ticker: the ticker only reads the counters
\* and writes progress events, so every other event sequence is unchanged.
NextCollect ==
    \/ CancelCtx
    \/ ScanStarted
    \/ DirectProbeStart
    \/ scanDirectStream
    \/ InvalidTarget
    \/ collectStreams
    \/ StartTesting
    \/ Dispatch
    \/ \E i \in Workers : WorkerAcquire(i)
    \/ \E i \in Workers : WorkerTested(i)
    \/ \E i \in Workers : WorkerOnvifTested(i)
    \/ \E i \in Workers : WorkerFound(i)
    \/ \E i \in Workers : WorkerSend(i)
    \/ \E i \in Workers : WorkerReturn(i)
    \/ FinishTesting
    \/ SendComplete
    \/ SendDone
    \/ ScanReturn
    \/ CollectorRecv
    \/ CollectorExit
    \/ CollectorSendFound
    \/ CollectorLoadTested
    \/ CollectorLoadFound
    \/ CollectorLoadRemaining
    \/ CollectorSendProgress

InitCollect == InitWith(CollectMaxCandidates, CollectMaxWorkers, CollectMaxStreams)

SpecCollect == InitCollect /\ [][NextCollect]_vars

\* The scanning goroutine and the probe workers alone.  Neither the ticker
\* nor the collector writes sem, the wait group, the counters or the context,
\* and streamsChan (capacity 100) cannot fill with at most PoolMaxCandidates
\* sends, so the pool takes exactly the steps it takes in Spec.
NextPool ==
    \/ CancelCtx
    \/ ScanStarted
    \/ DirectProbeStart
    \/ scanDirectStream
    \/ InvalidTarget
    \/ collectStreams
    \/ StartTesting
    \/ Dispatch
    \/ \E i \in Workers : WorkerAcquire(i)
    \/ \E i \in Workers : WorkerTested(i)
    \/ \E i \in Workers : WorkerOnvifTested(i)
    \/ \E i \in Workers : WorkerFound(i)
    \/ \E i \in Workers : WorkerSend(i)
    \/ \E i \in Workers : WorkerReturn(i)
    \/ FinishTesting
    \/ SendComplete
    \/ SendDone
    \/ ScanReturn

InitPool == InitWith(PoolMaxCandidates, PoolMaxWorkers, PoolMaxStreams)

SpecPool == InitPool /\ [][NextPool]_vars

\* SpecCollect with the candidates drawn from the three kinds, so that a
\* stream of Type "ONVIF" that is not marked Working is among them.
InitBypass ==
    InitFrom(BypassKinds, BypassMaxCandidates, BypassMaxWorkers, BypassMaxStreams)

SpecBypass == InitBypass /\ [][NextCollect]_vars

\* A scan of more working candidates than the result channel holds, at the
\* moment the channel is full: the range loop has spawned every goroutine
\* (found was still below MaxStreams at each check), the first StreamsChanCap
\* workers have counted, sent and returned, the collector has not been
\* scheduled since it was started, and each of the other workers has counted
\* its result and stands at streamsChan <- discoveredStream holding a
\* semaphore slot.  The URLs are distinct, so collectStreams has kept every
\* stream of the one source that delivered any.
FullList == [i \in 1..(StreamsChanCap + ChanFullExtra) |-> "probe"]

InitChanFull ==
    /\ candidates = FullList
    /\ onvifStreams = AsSource(candidates)
    /\ modelStreams = << >>
    /\ popularStreams = << >>
    /\ srcErr = {}
    /\ target = "ip"
    /\ maxStreams \in 1..LiveMaxStreams
    /\ poolSize = ChanFullExtra
    /\ scanPc = "wgwait"
    /\ ctxDone = FALSE
    /\ allStreams = onvifStreams
    /\ streams = KindsOf(allStreams)
    /\ next = Len(streams) + 1
    /\ worker = [i \in DOMAIN streams |->
                    IF i <= StreamsChanCap THEN "done" ELSE "counted"]
    /\ sem = ChanFullExtra
    /\ streamsChan = [i \in 1..StreamsChanCap |-> TestedStream(i)]
    /\ chanClosed = FALSE
    /\ tested = Len(streams)
    /\ found = Len(streams)
    /\ progressCancelled = FALSE
    /\ tickerPc = "select"
    /\ currentTested = 0
    /\ lastTested = 0
    /\ tickerFound = 0
    /\ collPc = "recv"
    /\ collStream = NoStream
    /\ collTested = 0
    /\ collFound = 0
    /\ collRemaining = 0
    /\ sink = <<Event("scan_started", NoStream, 0, 0, 0),
                Event("progress", NoStream, 0, 0, Len(streams))>>
    /\ result = [TotalTested |-> 0, TotalFound |-> 0, Streams |-> 0]
    /\ probes = Len(streams)
    /\ directWorking = "none"
    /\ LibIdle

\* testStreamsConcurrently with its workers and its collector, from a fresh
\* scan or from the full channel, up to its return; what Scan does after it
\* (two SendJSON calls, a sleep and the return) has no blocking operation
InitLive ==
    \/ InitWith(LiveMaxCandidates, LiveMaxWorkers, LiveMaxStreams)
    \/ InitChanFull

NextLive ==
    \/ CancelCtx
    \/ ScanStarted
    \/ DirectProbeStart
    \/ scanDirectStream
    \/ InvalidTarget
    \/ collectStreams
    \/ StartTesting
    \/ Dispatch
    \/ \E i \in Workers : WorkerAcquire(i)
    \/ \E i \in Workers : WorkerTested(i)
    \/ \E i \in Workers : WorkerOnvifTested(i)
    \/ \E i \in Workers : WorkerFound(i)
    \/ \E i \in Workers : WorkerSend(i)
    \/ \E i \in Workers : WorkerReturn(i)
    \/ FinishTesting
    \/ CollectorRecv
    \/ CollectorExit
    \/ CollectorSendFound
    \/ CollectorLoadTested
    \/ CollectorLoadFound
    \/ CollectorLoadRemaining
    \/ CollectorSendProgress

\* The Go scheduler runs every goroutine that can take a step; a probe that
\* was invoked returns (WorkerTested, scanDirectStream) and SendJSON returns
\* (the sink accepts every event): while some goroutine can take a step, one
\* of them does.  The deadline is not bound to expire.
FairLive ==
    WF_vars(\/ ScanStarted
            \/ DirectProbeStart
            \/ scanDirectStream
            \/ InvalidTarget
            \/ collectStreams
            \/ StartTesting
            \/ Dispatch
            \/ \E i \in Workers : WorkerAcquire(i)
            \/ \E i \in Workers : WorkerTested(i)
            \/ \E i \in Workers : WorkerOnvifTested(i)
            \/ \E i \in Workers : WorkerFound(i)
            \/ \E i \in Workers : WorkerSend(i)
            \/ \E i \in Workers : WorkerReturn(i)
            \/ FinishTesting
            \/ CollectorRecv
            \/ CollectorExit
            \/ CollectorSendFound
            \/ CollectorLoadTested
            \/ CollectorLoadFound
            \/ CollectorLoadRemaining
            \/ CollectorSendProgress)

SpecLive == InitLive /\ [][NextLive]_vars /\ FairLive

\* collectStreams over what its three sources deliver, each of which can
\* fail but ONVIF discovery (a call that fails delivers nothing), followed by
\* the scan of SpecPool with one worker and max_streams 1.
InitSources ==
    /\ onvifStreams \in OnvifResults(SrcMaxLen)
    /\ modelStreams \in {ItemsOf(u, "model") : u \in SeqsUpTo(PatternURLs, SrcMaxLen)}
    /\ popularStreams \in {ItemsOf(u, "popular") : u \in SeqsUpTo(PatternURLs, SrcMaxLen)}
    /\ srcErr \in SUBSET {"model", "popular"}
    /\ "model" \in srcErr => modelStreams = << >>
    /\ "popular" \in srcErr => popularStreams = << >>
    /\ candidates = KindsOf(CollectStreams(onvifStreams, modelStreams,
                                           popularStreams, srcErr))
    /\ InitScan(1, 1)

SpecSources == InitSources /\ [][NextPool]_vars

\* Scan from its entry to the return of collectStreams, for the same requests
\* and sources.
NextGather ==
    \/ ScanStarted
    \/ collectStreams

SpecGather == InitSources /\ [][NextGather]_vars

\* One call of DiscoverStreamsForIP, for every outcome of the three ports.
InitOnvif ==
    /\ candidates = << >>
    /\ onvifStreams = << >>
    /\ modelStreams = << >>
    /\ popularStreams = << >>
    /\ srcErr = {}
    /\ InitScanState(1, 1)
    /\ HandlerPassed
    /\ WireIdle
    /\ BuilderIdle
    /\ MoreIdle
    /\ portOutcome \in [DOMAIN OnvifPorts -> {"error", "noprofiles", "profiles"}]
    /\ profileStreams \in {ItemsOf(u, "onvif") :
                              u \in SeqsUpTo(PatternURLs, SrcMaxLen) \ {<< >>}}
    /\ portIdx = 1
    /\ onvifFound = << >>
    /\ onvifPc = "ports"
    /\ onvifResult = [streams |-> << >>, err |-> "none"]

NextOnvif ==
    \/ discoverViaONVIF
    \/ DiscoverStreamsForIP

SpecOnvif == InitOnvif /\ [][NextOnvif]_vars

\* The three goroutines of one scan each sending one event, write by write.
InitWrite ==
    /\ candidates = << >>
    /\ onvifStreams = << >>
    /\ modelStreams = << >>
    /\ popularStreams = << >>
    /\ srcErr = {}
    /\ InitScanState(1, 1)
    /\ OnvifIdle
    /\ HandlerPassed
    /\ WireIdle
    /\ BuilderIdle
    /\ MoreIdle

NextWrite ==
    \/ \E w \in Writers : WriteEventEnter(w)
    \/ \E w \in Writers : WriteEventLine(w)
    \/ \E w \in Writers : WriteEventFlush(w)

SpecWrite == InitWrite /\ [][NextWrite]_vars

\* the queries of at most n pairs with distinct keys
Queries(K, V, n) ==
    {q \in SeqsUpTo([key : K, val : V], n) :
        \A i, j \in DOMAIN q : i # j => q[i].key # q[j].key}

\* the patterns with a path over P and a query over K and V
Patterns(P, np, K, V, nq) ==
    {[path |-> pa, hasQ |-> hq, query |-> q] :
        pa \in SeqsUpTo(P, np), hq \in BOOLEAN, q \in Queries(K, V, nq)}

\* the scan and the other components at rest
InitRest ==
    /\ candidates = << >>
    /\ onvifStreams = << >>
    /\ modelStreams = << >>
    /\ popularStreams = << >>
    /\ srcErr = {}
    /\ InitScanState(1, 1)
    /\ target = "ip"
    /\ OnvifIdle
    /\ HandlerPassed
    /\ WireIdle

\* One call of BuildURLsFromEntry for every entry and context within the
\* bounds; the credentials are plain words.
InitBuilder ==
    /\ InitRest
    /\ MoreIdle
    /\ entry \in [protocol : {"rtsp", "rtsps", "http", "https", "bubble", "mjpeg"},
                   port : {0, 8080},
                   url : {t \in Patterns({"snap", "[USERNAME]"}, MaxPathLen,
                                         {"res", "user", "pwd"},
                                         {<<"1">>, <<"[USERNAME]">>}, MaxQueryLen) :
                            t.hasQ = (t.query # << >>)}]
    /\ buildCtx \in [username : {<< >>, <<"admin">>},
                      password : {<< >>, <<"secret">>},
                      protocol : {""}, port : {0}]
    /\ urls = << >>
    /\ substOut = << >>
    /\ builderPc = "ready"

SpecBuilder == InitBuilder /\ [][CallBuildURLsFromEntry]_vars

\* replacePlaceholders applied twice, for every pattern and context within the
\* bounds; a credential may itself read like a placeholder.
InitSubst ==
    /\ InitRest
    /\ MoreIdle
    /\ entry \in [protocol : {"http"}, port : {0},
                   url : {t \in Patterns({"snap", "[USERNAME]"}, SubstMaxPathLen,
                                         {"ch", "res", "user"},
                                         {<<"1">>, <<"a b">>, <<"[USERNAME]">>},
                                         SubstMaxQueryLen) :
                            t.query # << >> => t.hasQ}]
    /\ buildCtx \in [username : {<< >>, <<"admin">>, <<"[pass]">>},
                      password : {<< >>, <<"secret">>},
                      protocol : {""}, port : {0}]
    /\ urls = << >>
    /\ substOut = << >>
    /\ builderPc = "ready"

SpecSubst == InitSubst /\ [][CallReplacePlaceholders]_vars

\* normalizeQuery applied twice to every query within the bound.
InitSearch ==
    /\ InitRest
    /\ SseIdle
    /\ BuilderIdle
    /\ LoaderIdle
    /\ FallbackIdle
    /\ TesterIdle
    /\ query \in SeqsUpTo(QueryChars, MaxQueryChars)
    /\ normalized = << >>
    /\ searchPc = "ready"

SpecSearch == InitSearch /\ [][CallNormalizeQuery]_vars

\* Concurrent calls of the Loader, one per caller, for every choice of keys and
\* for files that exist or not; a file does not change while the calls run.
InitLoader ==
    /\ InitRest
    /\ BuilderIdle
    /\ SearchIdle
    /\ SseIdle
    /\ FallbackIdle
    /\ TesterIdle
    /\ \E fs \in [LoaderKeys -> {"missing", "data"}] : LoaderState(fs)

NextLoader ==
    \/ \E c \in Callers, k \in LoaderKeys : LoadRLock(c, k)
    \/ \E c \in Callers : LoadCheck(c)
    \/ \E c \in Callers : LoadDecode(c)
    \/ \E c \in Callers : LoadLock(c)
    \/ \E c \in Callers : LoadStore(c)

SpecLoader == InitLoader /\ [][NextLoader]_vars

\* One call of BuildURLsFromEntry for patterns with channel placeholders.
InitChannel ==
    /\ InitRest
    /\ MoreIdle
    /\ entry \in [protocol : {"rtsp", "http"}, port : {0},
                   url : {t \in Patterns({"snap", "[CHANNEL]", "[CHANNEL+1]", "{CHANNEL+1}"},
                                         ChanMaxPathLen, {"ch"},
                                         {<<"1">>, <<"[CHANNEL+1]">>}, 1) :
                            t.hasQ = (t.query # << >>)}]
    /\ buildCtx \in {[username |-> << >>, password |-> << >>, protocol |-> "", port |-> 0],
                      [username |-> <<"admin">>, password |-> <<"secret">>,
                       protocol |-> "", port |-> 0]}
    /\ urls = << >>
    /\ substOut = << >>
    /\ builderPc = "ready"

SpecChannel == InitChannel /\ [][CallBuildURLsFromEntry]_vars

\* The common streams of one request and their probes, in any order.
InitFallback ==
    /\ InitRest
    /\ BuilderIdle
    /\ SearchIdle
    /\ SseIdle
    /\ LoaderIdle
    /\ TesterIdle
    /\ reqCreds \in [username : {"", "admin", "root"}, password : {"", "secret", "12345"}]
    /\ commonStreams = << >>
    /\ probeRequests = << >>
    /\ commonPc = "ready"

NextFallback ==
    \/ CallGetCommonRTSPStreams
    \/ \E i \in DOMAIN commonStreams : WorkerTestStream(i)

SpecFallback == InitFallback /\ [][NextFallback]_vars

\* validateHTTPStream for every Content-Type, path and sample within the
\* bounds.
InitValidate ==
    /\ InitRest
    /\ BuilderIdle
    /\ SearchIdle
    /\ SseIdle
    /\ LoaderIdle
    /\ FallbackIdle
    /\ httpResp \in [contentType : ContentTypes,
                      path : SeqsUpTo(PathPieces, MaxPathPieces),
                      sample : SeqsUpTo(SampleBytes, MaxSample)]
    /\ httpResult = NoHTTPResult
    /\ ffprobeOut = [streams |-> << >>, formatBitRate |-> 0]
    /\ rtspResult = NoRTSPResult
    /\ testerPc = "ready"

\* t.testRTSP(ctx, streamURL, &result), ffprobe having answered
CallTestRTSP ==
    /\ testerPc = "ready"
    /\ rtspResult' = testRTSP(ffprobeOut)
    /\ testerPc' = "probed"
    /\ UNCHANGED <<httpResp, httpResult, ffprobeOut, nonTesterVars>>

\* testRTSP for every report of ffprobe within the bound.
InitProbe ==
    /\ InitRest
    /\ BuilderIdle
    /\ SearchIdle
    /\ SseIdle
    /\ LoaderIdle
    /\ FallbackIdle
    /\ httpResp = [contentType |-> "", path |-> << >>, sample |-> << >>]
    /\ httpResult = NoHTTPResult
    /\ ffprobeOut \in [streams : SeqsUpTo(SubStreams, MaxSubStreams),
                        formatBitRate : {0, 8000}]
    /\ rtspResult = NoRTSPResult
    /\ testerPc = "ready"

\* NewServer and Start: no client yet, the loop at its select
InitSse ==
    /\ InitRest
    /\ BuilderIdle
    /\ SearchIdle
    /\ LoaderIdle
    /\ FallbackIdle
    /\ TesterIdle
    /\ SseState("select")

SpecSse == InitSse /\ [][NextSse]_vars

SpecProbe == InitProbe /\ [][CallTestRTSP]_vars

SpecValidate == InitValidate /\ [][CallValidateHTTPStream]_vars

\* The handler from the arrival of a request to the first event of the scan.
InitHandler ==
    /\ candidates = << >>
    /\ onvifStreams = << >>
    /\ modelStreams = << >>
    /\ popularStreams = << >>
    /\ srcErr = {}
    /\ InitScanState(1, 1)
    /\ OnvifIdle
    /\ WireIdle
    /\ BuilderIdle
    /\ MoreIdle
    /\ \E m \in {"POST", "GET"}, ok \in BOOLEAN, t \in {"", target},
          ch \in Around(0, 255), ms \in Around(1, 50), to \in Around(10, 600),
          ml \in Around(1, 20) :
          httpReq = Request(m, ok, t, ch, ms, to, ml)
    /\ handlerPc = "recv"
    /\ httpStatus = 0

NextHandler ==
    \/ ServeHTTP
    \/ ScanStarted

SpecHandler == InitHandler /\ [][NextHandler]_vars

\* ================================================================ claims ==
\* positions in the sink of the events of one type
Indices(t) == {k \in 1..Len(sink) : sink[k].type = t}

Min(a, b) == IF a <= b THEN a ELSE b

\* TestStream invocations that have not returned yet
ProbesInProgress ==
    Cardinality({i \in Workers : worker[i] \in {"probing", "probing_cancelled"}})
    + (IF scanPc \in {"direct_probe", "direct_probe_cancelled"} THEN 1 ELSE 0)

\* worker goroutines started and not yet finished
LiveWorkers == {i \in Workers : worker[i] \notin {"idle", "done"}}

\* C1: every stream_found in the sink comes after scan_started and before
\* complete; no stream_found is written once complete has been written.
C1_StreamFoundBeforeComplete ==
    \A k \in Indices("stream_found") :
        /\ \E s \in Indices("scan_started") : s < k
        /\ \A c \in Indices("complete") : k < c

\* C2: the totals carried by complete satisfy total_tested <= |candidates| and
\* total_found <= min(total_tested, max_streams).
C2_TotalsBounded ==
    \A c \in Indices("complete") :
        /\ sink[c].tested <= Len(streams)
        /\ sink[c].found <= Min(sink[c].tested, maxStreams)

\* C3: once the scan context is done, no further worker is dispatched and no
\* further probe is started.
C3_NoCandidateTakenAfterCancel ==
    [][ctxDone => (next' = next /\ probes' = probes)]_vars

\* C4: once found >= max_streams, no further probe is started.
C4_NoProbeAfterMaxStreams ==
    [][found >= maxStreams => probes' = probes]_vars

\* C5: when Scan has returned, the sink holds exactly one complete, it is
\* immediately followed by done, and it carries the counts reached.
C5_CompleteThenDoneOnEveryPath ==
    scanPc = "returned" =>
        /\ Cardinality(Indices("complete")) = 1
        /\ \A c \in Indices("complete") :
              /\ c < Len(sink)
              /\ sink[c + 1].type = "done"
              /\ sink[c].tested = tested
              /\ sink[c].found = found

\* C6: when Scan has returned, every probe worker, the ticker and the result
\* collector have terminated.
C6_AllTasksTerminatedAtReturn ==
    scanPc = "returned" =>
        /\ LiveWorkers = {}
        /\ tickerPc \in {"idle", "exited"}
        /\ collPc \in {"idle", "exited"}

\* C7: the progress events in the sink are non-decreasing in tested and in
\* found, in sink order.
C7_ProgressMonotonic ==
    \A i, j \in Indices("progress") :
        i < j => /\ sink[i].tested <= sink[j].tested
                 /\ sink[i].found <= sink[j].found

\* C8: at every moment the number of probe invocations in progress is at most
\* the worker cap.
C8_ProbesInProgressAtMostW == ProbesInProgress <= poolSize

\* C8 witness: the cap of two is reached while a third worker waits for a token
C8_Witness ==
    /\ poolSize = 2
    /\ ProbesInProgress = 2
    /\ sem = 2
    /\ \E i \in Workers : worker[i] = "spawned"

\* C9: at every moment the number of worker goroutines started and not yet
\* finished is at most the worker cap.
C9_LiveWorkersAtMostW == Cardinality(LiveWorkers) <= poolSize

\* C10: for a direct URL target nothing is collected and no worker is
\* spawned, exactly one probe is made, total_tested is 1, and the sink holds
\* one stream_found if the probe returned working and none otherwise.
C10_DirectScan ==
    isDirectStreamURL(target) =>
        /\ streams = << >>
        /\ Workers = {}
        /\ probes <= 1
        /\ scanPc = "returned" =>
              /\ probes = 1
              /\ result.TotalTested = 1
              /\ Cardinality(Indices("stream_found")) =
                    (IF directWorking = "working" THEN 1 ELSE 0)

\* C10 witnesses: a direct scan has returned after a working probe
C10_Witness ==
    /\ isDirectStreamURL(target)
    /\ scanPc = "returned"
    /\ directWorking = "working"
    /\ Indices("stream_found") # {}

\* stream_found events in the sink that carry candidate i's URL
FoundEvents(i) == {k \in Indices("stream_found") : sink[k].id.url = i}

\* workers whose atomic.AddInt32(&tested, 1) has run
CountedTested ==
    {i \in Workers : worker[i] \in {"working", "failed", "counted", "sent", "done"}}

\* workers whose atomic.AddInt32(&found, 1) has certainly run: a worker that
\* has returned ran it if it is the device service, which has no failing path
CountedFound ==
    {i \in Workers : \/ worker[i] \in {"counted", "sent"}
                     \/ worker[i] = "done" /\ streams[i] = "onvif"}

\* workers whose atomic.AddInt32(&found, 1) may have run
MaybeCountedFound == {i \in Workers : worker[i] \in {"counted", "sent", "done"}}

\* workers that have invoked TestStream
ProbedWorkers ==
    {i \in Workers : streams[i] # "onvif" /\ worker[i] \notin {"idle", "spawned"}}

\* C11: the ONVIF device-service candidate (Type "ONVIF", Working) is never
\* probed, adds one to tested and one to found, and is written as one
\* stream_found event carrying the candidate's own fields; every other
\* candidate is probed, and is written only as the stream built from a probe
\* result that reported working.
C11_DeviceServiceBypassesProbe ==
    ~isDirectStreamURL(target) =>
        /\ tested = Cardinality(CountedTested)
        /\ Cardinality(CountedFound) <= found
        /\ found <= Cardinality(MaybeCountedFound)
        /\ probes = Cardinality(ProbedWorkers)
        /\ \A i \in Workers :
              IF streams[i] = "onvif"
              THEN /\ worker[i] \notin {"probing", "probing_cancelled", "failed"}
                   /\ Cardinality(FoundEvents(i)) <= 1
                   /\ \A k \in FoundEvents(i) :
                         sink[k].id = CandidateStream(streams[i], i)
                   /\ (collPc = "exited" /\ worker[i] = "done")
                         => Cardinality(FoundEvents(i)) = 1
              ELSE \A k \in FoundEvents(i) :
                         /\ sink[k].id = TestedStream(i)
                         /\ worker[i] \in {"sent", "done"}

\* C11 witness: the collector has drained the channel; the device service was
\* counted and written unchanged, and no probe was made
C11_Witness ==
    /\ streams = <<"onvif">>
    /\ collPc = "exited"
    /\ probes = 0
    /\ tested = 1
    /\ found = 1
    /\ \E k \in FoundEvents(1) : sink[k].id = CandidateStream("onvif", 1)

\* the streams the sources that did not fail deliver, in collection order
Delivered ==
    SourceStreams("onvif", onvifStreams, srcErr)
    \o SourceStreams("model", modelStreams, srcErr)
    \o SourceStreams("popular", popularStreams, srcErr)

\* position of the first stream with URL u in list
FirstAt(list, u) ==
    CHOOSE k \in DOMAIN list :
        list[k].url = u /\ \A l \in 1..(k - 1) : list[l].url # u

\* collectStreams has returned
Collected == scanPc \notin {"init", "started"} /\ ~isDirectStreamURL(target)
             /\ ~extractIPEmpty(target)

\* C12: the list collectStreams returns has no two streams with the same URL;
\* of streams with the same URL it holds the first in source order (ONVIF,
\* model patterns, popular patterns), in that order; every URL delivered is
\* in it.
C12_CandidatesDeduplicated ==
    Collected =>
        /\ \A i, j \in DOMAIN allStreams :
              i # j => allStreams[i].url # allStreams[j].url
        /\ \A k \in DOMAIN Delivered :
              \E i \in DOMAIN allStreams : allStreams[i].url = Delivered[k].url
        /\ \A i \in DOMAIN allStreams :
              /\ \E k \in DOMAIN Delivered : Delivered[k].url = allStreams[i].url
              /\ allStreams[i] = Delivered[FirstAt(Delivered, allStreams[i].url)]
        /\ \A i, j \in DOMAIN allStreams :
              i < j => FirstAt(Delivered, allStreams[i].url)
                         < FirstAt(Delivered, allStreams[j].url)

\* C12 witness: the ONVIF source and a pattern source delivered the same URL,
\* a third one differs, and the list holds the ONVIF stream and the other
C12_Witness ==
    /\ Collected
    /\ Len(allStreams) < Len(Delivered)
    /\ Len(allStreams) >= 2
    /\ \E k \in DOMAIN Delivered :
          /\ Delivered[k].src # "onvif"
          /\ \E i \in DOMAIN allStreams :
                allStreams[i].url = Delivered[k].url /\ allStreams[i].src = "onvif"

\* C14: a scan of an IP target writes no error event whichever of the model
\* search and the popular-pattern load fail and whatever ONVIF discovery
\* finds; the scan goes on with every stream the other sources delivered,
\* and when it returns complete has been written.
C14_SourceFailureTolerated ==
    (~isDirectStreamURL(target) /\ ~extractIPEmpty(target)) =>
        /\ Indices("error") = {}
        /\ Collected =>
              /\ streams = KindsOf(allStreams)
              /\ {Delivered[k].url : k \in DOMAIN Delivered}
                    = {allStreams[i].url : i \in DOMAIN allStreams}
              /\ \A k \in DOMAIN onvifStreams :
                    \E i \in DOMAIN allStreams : allStreams[i].url = onvifStreams[k].url
        /\ scanPc = "returned" => Indices("complete") # {}

\* C14 witness: both pattern sources failed, ONVIF found no device; the scan
\* tested the common stream and returned after complete
C14_Witness ==
    /\ srcErr = {"model", "popular"}
    /\ onvifStreams = CommonStreams
    /\ scanPc = "returned"
    /\ tested = 1
    /\ Indices("complete") # {}

\* a number sent with the request (0 is what an absent one decodes to) that
\* lies outside lo..hi
SentOutside(v, lo, hi) == v # 0 /\ (v < lo \/ v > hi)

\* some field of the decoded request is outside its stated range
OutOfRange(r) ==
    \/ r.target = ""
    \/ r.channel < 0 \/ r.channel > 255
    \/ SentOutside(r.maxStreams, 1, 50)
    \/ SentOutside(r.timeout, 10, 600)
    \/ SentOutside(r.modelLimit, 1, 20)

\* C15: once ServeHTTP has handled a well-formed POST request with a field
\* outside its stated range, the request is rejected with status 400, Scan
\* has not been entered and the sink is empty.
C15_OutOfRangeRejected ==
    (/\ httpReq.method = "POST"
     /\ httpReq.decodes
     /\ OutOfRange(httpReq)
     /\ handlerPc # "recv")
        => /\ handlerPc = "rejected"
           /\ httpStatus = 400
           /\ scanPc = "init"
           /\ sink = << >>

\* list ends with tail
EndsWith(list, tail) ==
    /\ Len(list) >= Len(tail)
    /\ SubSeq(list, Len(list) - Len(tail) + 1, Len(list)) = tail

\* C16: DiscoverStreamsForIP returns a nil error and a list that ends with
\* every common RTSP and HTTP stream, whatever the three ports did; when no
\* port delivered profiles the list is exactly the common streams, otherwise
\* the device service comes first.
C16_OnvifNeverFails ==
    onvifPc = "returned" =>
        /\ onvifResult.err = "nil"
        /\ EndsWith(onvifResult.streams,
                    <<Item("c", "probe", "onvif"), Item("h", "probe", "onvif")>>)
        /\ IF \E i \in DOMAIN portOutcome : portOutcome[i] = "profiles"
           THEN onvifResult.streams[1].kind = "onvif"
           ELSE Len(onvifResult.streams) = 2
        /\ onvifResult.streams \in OnvifResults(SrcMaxLen)

\* C16 witness: NewDevice failed on every port and the call has returned
C16_Witness ==
    /\ \A i \in DOMAIN portOutcome : portOutcome[i] = "error"
    /\ onvifPc = "returned"
    /\ onvifResult.err = "nil"
    /\ Len(onvifResult.streams) = 2

\* C13: the lines one goroutine writes for its event are contiguous on the
\* wire: no line of another goroutine's event lies between two of them.
C13_EventLinesContiguous ==
    \A i, j, k \in DOMAIN wire :
        (i < j /\ j < k /\ wire[i].writer = wire[k].writer)
            => wire[j].writer = wire[i].writer


\* ---------------------------------------------------------------- C17 ----
\* a URL is for an http or https entry
IsHTTP(e) == e.protocol \in {"http", "https"}

\* C17: BuildURLsFromEntry returns exactly one URL for an rtsp entry, exactly
\* one for an http/https entry without credentials, and exactly four for an
\* http/https entry with both username and password.
C17_CountByProtocol ==
    builderPc = "built" =>
        /\ entry.protocol = "rtsp" => Len(urls) = 1
        /\ IsHTTP(entry) /\ ~HasCredentials(buildCtx) => Len(urls) = 1
        /\ IsHTTP(entry) /\ HasCredentials(buildCtx) => Len(urls) = 4

\* ---------------------------------------------------------------- C18 ----
\* the URL carries a credential outside the userinfo: in its path or query
CarriesAuth(u, ctx) ==
    LET IsCred(tok) == <<tok>> \in {ctx.username, ctx.password}
    IN  \/ \E i \in DOMAIN u.path : IsCred(u.path[i])
        \/ \E i \in DOMAIN u.query : \E j \in DOMAIN u.query[i].val :
                IsCred(u.query[i].val[j])

\* C18: for an http/https entry with credentials the URLs are pairwise
\* distinct and each authentication shape (userinfo or not, credentials in
\* the request line or not) occurs exactly once.
C18_EachShapeOnce ==
    builderPc = "built" /\ IsHTTP(entry) /\ HasCredentials(buildCtx) =>
        /\ \A i, j \in DOMAIN urls : i # j => urls[i] # urls[j]
        /\ \A withUser, withParams \in BOOLEAN :
              Cardinality({i \in DOMAIN urls :
                              /\ urls[i].hasUser = withUser
                              /\ CarriesAuth(urls[i], buildCtx) = withParams}) = 1

\* ---------------------------------------------------------------- C19 ----
\* C19: for an rtsp or rtsps entry with username and password the single URL
\* carries them as userinfo.
C19_RtspEmbedsCredentials ==
    builderPc = "built" /\ entry.protocol \in {"rtsp", "rtsps"}
                       /\ HasCredentials(buildCtx) =>
        /\ Len(urls) = 1
        /\ urls[1].hasUser
        /\ urls[1].user = buildCtx.username
        /\ urls[1].pass = buildCtx.password


\* ---------------------------------------------------------------- C20 ----
\* the text holds no placeholder
PlaceholderFree(t) ==
    /\ \A i \in DOMAIN t.path : t.path[i] \notin Placeholders
    /\ \A i \in DOMAIN t.query : \A j \in DOMAIN t.query[i].val :
            t.query[i].val[j] \notin Placeholders

\* C20 as stated: placeholder substitution returns a template that contains
\* no placeholders unchanged.
C20_PlaceholderFreeUnchanged ==
    builderPc = "substituted" /\ PlaceholderFree(entry.url) =>
        substOut[1] = entry.url

\* C20: placeholder substitution is idempotent on its own output: applied,
\* under the same context, to a result of its own that contains no
\* placeholders, it returns that result unchanged.
C20_OwnOutputUnchanged ==
    builderPc = "substituted" /\ PlaceholderFree(substOut[1]) =>
        substOut[2] = substOut[1]

\* a pattern with a placeholder and a query was substituted, its query was
\* rewritten, and the second application returned the result of the first
C20_Witness ==
    /\ builderPc = "substituted"
    /\ ~PlaceholderFree(entry.url)
    /\ Len(entry.url.query) = 2
    /\ substOut[1].query # entry.url.query
    /\ buildCtx.username = <<"admin">>
    /\ PlaceholderFree(substOut[1])
    /\ substOut[2] = substOut[1]


\* ---------------------------------------------------------------- C21 ----
\* C21: normalizeQuery(normalizeQuery(q)) = normalizeQuery(q) for every
\* query string q.
C21_NormalizeIdempotent ==
    searchPc = "normalized" => normalized[2] = normalized[1]


\* ---------------------------------------------------------------- C22 ----
\* the calls for key k that have returned a value
Served(k) ==
    {c \in Callers : loaderKey[c] = k /\ loaderPc[c] = "done" /\ returned[c] # "error"}

\* C22 as stated: under concurrent calls for the same key the cache entry is
\* populated at most once, and every caller obtains an equal value.
C22_PopulatedAtMostOnce ==
    \A k \in LoaderKeys :
        /\ cacheWrites[k] <= 1
        /\ \A c, d \in Served(k) : returned[c] = returned[d]

\* C22: a call that finds the entry populated does not populate it again; a
\* call that misses stores what it read, so the entry is assigned at most once
\* per such call, always with the content of the file, and every caller
\* obtains that same value.
C22_StoredOncePerMiss ==
    \A k \in LoaderKeys :
        /\ \A c \in Callers : hitOnEntry[c] => loaded[c] = "none"
        /\ cacheWrites[k] <= Cardinality({c \in Callers :
                                  loaderKey[c] = k /\ loaded[c] # "none"})
        /\ cache[k] \in {"none", files[k]}
        /\ \A c \in Served(k) : returned[c] = files[k]

\* two calls for one key both missed and both stored, and a later call would
\* hit: the entry was assigned twice with equal values
C22_Witness ==
    /\ cacheWrites["hikvision"] = 2
    /\ Served("hikvision") = {1, 2}
    /\ returned[1] = returned[2]
    /\ cache["hikvision"] = "data"


\* ---------------------------------------------------------------- C23 ----
\* the texts of the channel-plus-one placeholders, plain and query-escaped
ChannelPlusOne ==
    {"[CHANNEL+1]", "{CHANNEL+1}", "%5BCHANNEL%2B1%5D", "%7BCHANNEL%2B1%7D"}

\* C23: every [CHANNEL+1] and {CHANNEL+1} of a template is replaced, so no
\* such token survives in a built URL.
C23_ChannelPlusOneReplaced ==
    builderPc = "built" =>
        \A n \in DOMAIN urls :
            /\ \A i \in DOMAIN urls[n].path : urls[n].path[i] \notin ChannelPlusOne
            /\ \A i \in DOMAIN urls[n].query : \A j \in DOMAIN urls[n].query[i].val :
                    urls[n].query[i].val[j] \notin ChannelPlusOne


\* ---------------------------------------------------------------- C24 ----
\* C24: when the request supplies credentials, every HTTP fallback candidate
\* is probed with those credentials as Basic auth, although its URL carries
\* none.
C24_FallbackProbedWithCredentials ==
    \A i \in DOMAIN probeRequests :
        /\ probeRequests[i].sent
        /\ commonStreams[i].url.scheme = "http"
        /\ reqCreds.username # "" /\ reqCreds.password # ""
        => /\ ~probeRequests[i].url.hasUser
           /\ probeRequests[i].basicAuth = <<reqCreds.username, reqCreds.password>>


\* ---------------------------------------------------------------- C25 ----
\* C25: every Progress event emitted during probing carries tested and
\* remaining values that sum to the number of candidates.
C25_ProgressSumsToCandidates ==
    \A n \in DOMAIN sink :
        sink[n].type = "progress" =>
            sink[n].tested + sink[n].remaining = Len(streams)


\* ---------------------------------------------------------------- C26 ----
\* the condition of rung n of the decision ladder, on the response
Rung(n) ==
    LET ct == httpResp.contentType
        path == httpResp.path
    IN  CASE n = 1 -> CtHas(ct, "multipart")
          [] n = 2 -> hasJPEGMagic(httpResp.sample)
          [] n = 3 -> CtHas(ct, "image/jpeg") \/ CtHas(ct, "image/jpg")
          [] n = 4 -> \E p \in jpegPatterns : PathHas(path, p)
          [] n = 5 -> PathHas(path, ".mjpg") \/ PathHas(path, ".mjpeg")
          [] n = 6 -> \/ PathHas(path, ".m3u8")
                      \/ CtHas(ct, "application/vnd.apple.mpegurl")
                      \/ CtHas(ct, "application/x-mpegurl")
          [] n = 7 -> PathHas(path, ".mpd") \/ CtHas(ct, "application/dash+xml")
          [] n = 8 -> CtHas(ct, "video")
          [] n = 9 -> CtHas(ct, "text/html") \/ CtHas(ct, "text/plain")
          [] n = 10 -> TRUE

\* the classification rung n prescribes
RungOutcome(n) ==
    LET boundary == hasMJPEGBoundary(httpResp.sample)
    IN  CASE n = 1 -> <<"MJPEG", boundary>>
          [] n = 2 -> <<IF boundary THEN "MJPEG" ELSE "JPEG", TRUE>>
          [] n \in {3, 4} -> <<"JPEG", TRUE>>
          [] n = 5 -> <<"MJPEG", TRUE>>
          [] n = 6 -> <<"HLS", TRUE>>
          [] n = 7 -> <<"MPEG-DASH", TRUE>>
          [] n = 8 -> <<"HTTP_VIDEO", TRUE>>
          [] n = 9 -> <<"", FALSE>>
          [] n = 10 -> <<"HTTP_UNKNOWN", TRUE>>

\* the first rung whose condition holds
FirstRung == CHOOSE n \in 1..10 : Rung(n) /\ \A m \in 1..(n - 1) : ~Rung(m)

VideoIndexes == {i \in DOMAIN ffprobeOut.streams : ffprobeOut.streams[i].codecType = "video"}

FirstVideo ==
    ffprobeOut.streams[CHOOSE i \in VideoIndexes : \A j \in VideoIndexes : i <= j]

\* C27: when ffprobe reports several video substreams, codec, resolution,
\* fps and bitrate of the result are those of the first video substream.
C27_FirstVideoSubstream ==
    testerPc = "probed" /\ VideoIndexes # {} =>
        /\ rtspResult.codec = FirstVideo.codecName
        /\ rtspResult.resolution = <<FirstVideo.width, FirstVideo.height>>
        /\ rtspResult.fps = IF FirstVideo.avgFrameRate # << >>
                            THEN FirstVideo.avgFrameRate[1] \div FirstVideo.avgFrameRate[2]
                            ELSE 0
        /\ rtspResult.bitrate = IF FirstVideo.bitRate # 0 THEN FirstVideo.bitRate
                                ELSE ffprobeOut.formatBitRate


\* C28: when the deadline has not expired and found has stayed below
\* max_streams, every candidate has been handled exactly once by the time the
\* complete event is written (probed, or counted without a probe for a
\* device-service entry), and the complete event reports total_tested equal
\* to the number of candidates.
C28_EveryCandidateHandledOnce ==
    (/\ scanPc \in {"completed", "done_sent"}
     /\ ~isDirectStreamURL(target)
     /\ ~ctxDone
     /\ found < maxStreams)
    => /\ \A i \in DOMAIN streams : worker[i] = "done"
       /\ probes = Cardinality({i \in DOMAIN streams : ~BypassesProbe(streams[i])})
       /\ tested = Len(streams)
       /\ \E k \in DOMAIN sink : sink[k].type = "complete"
       /\ \A k \in DOMAIN sink :
             sink[k].type = "complete" => sink[k].tested = Len(streams)

\* C28 witness: a scan of several candidates, one of them the device service,
\* has written complete with the deadline not expired and found below the cap
C28_Witness ==
    /\ scanPc = "completed"
    /\ ~ctxDone
    /\ found < maxStreams
    /\ found >= 1
    /\ Len(streams) >= 2
    /\ \E i \in DOMAIN streams : BypassesProbe(streams[i])
    /\ \E i \in DOMAIN streams : ~BypassesProbe(streams[i])


\* testStreamsConcurrently has returned (or Scan returned before it), every
\* worker goroutine has ended and so has the collector
ScanGoroutinesEnded ==
    /\ scanPc \in {"tested", "returned"}
    /\ \A i \in Workers : worker[i] \in {"idle", "done"}
    /\ sem = 0
    /\ collPc \in {"idle", "exited"}

C30_BroadcastNeverBlocks == loopPc # "unregister_send"

====
